---- MODULE Spec2Model ----
(***************************************************************************)
(* Makeup-lesson booking: slot capacity ledger, waitlist promotion         *)
(* (confirmNextWaiter), decline handler, manual waitlist close and the     *)
(* expiry sweeper, as implemented in server/routes.ts and                  *)
(* server/scheduler.ts.                                                    *)
(*                                                                         *)
(* Every `await prisma...` of a handler is one atomic store operation and  *)
(* one action of the model; the synchronous code around it belongs to the  *)
(* same action (Node runs it without suspension).  A handler instance is a *)
(* process p with a program counter pc[p] and its local variables loc[p].  *)
(* Time is counted in units of 30 minutes.                                 *)
(***************************************************************************)
EXTENDS Integers, Sequences, FiniteSets, TLC

\* ------------------------------------------------------------- bounds
MaxReq == 2         \* Request rows ever created
MaxAllowed == 1     \* largest capacityMakeupAllowed an admin enters or a slot is created with
MaxNow == 1         \* last clock reading
MaxNotices == 1     \* AbsenceNotice rows of a drawn database
MaxCap == 2         \* largest capacityMakeupAllowed of a drawn promotion scenario
MaxWait == 3        \* most waiting requests of a drawn promotion scenario
MaxSweepReq == 2    \* Request rows of a drawn sweep scenario
MaxCase == 3        \* largest capacityMakeupAllowed of a drawn case, and entered in it
MaxCaseRows == 5    \* Request rows of a case
MaxOps == 2         \* requests that arrive while a promotion runs
MaxStart == 4       \* latest lesson start an admin moves a slot to

\* ---------------------------------------------------- program constants
OneHour == 2        \* setHours(getHours() + 1), in units of 30 minutes

Procs == {"p1", "p2"}
Slots == {"s1", "s2"}
Bands == {"shokyu", "chukyu"}
NoSlot == "none"

\* Request.status: 待ち / 確定 / 却下 / 期限切れ
WAITING == "WAITING"
CONFIRMED == "CONFIRMED"
DECLINED == "DECLINED"
EXPIRED == "EXPIRED"

ACTIVE_ABSENCE_STATUSES == {"ABSENT_LOGGED", "WAITING", "CANCELLED"}
AbsenceStatuses == ACTIVE_ABSENCE_STATUSES \cup {"MAKEUP_CONFIRMED", "EXPIRED"}

VARIABLES
    slots,      \* ClassSlot table: slot id -> row (exists = FALSE: no such row)
    requests,   \* Request table: sequence of rows, the index is the row id
    notices,    \* AbsenceNotice table: sequence of rows, the index is the row id
    now,        \* the clock, read by new Date()
    nextToken,  \* createId(): number of ids generated so far
    mails,      \* notification attempts: request id -> [conf, exp] counts
    pc,         \* process -> place in its handler
    loc,        \* process -> the handler's local variables
    db0,        \* observer: the database when the scenario or operation observed began
    obs         \* observer: the operation observed (sequential runs only)

vars == <<slots, requests, notices, now, nextToken, mails, pc, loc, db0, obs>>

\* the database: what db0 is a copy of
DB == [slots |-> slots, requests |-> requests, notices |-> notices]

\* ------------------------------------------------------------ helpers
ReqIds == 1..Len(requests)

\* slot.capacityMakeupAllowed - slot.capacityMakeupUsed
Remaining(row) == row.allowed - row.used

\* prisma.request.findMany({where: {toSlotId, status: "待ち"}})
WaitingOf(s) == {r \in ReqIds : requests[r].slot = s /\ requests[r].status = WAITING}

ConfirmedOf(s) == {r \in ReqIds : requests[r].slot = s /\ requests[r].status = CONFIRMED}

\* a set of request ids as a list in row order
RECURSIVE AsList(_)
AsList(S) ==
    IF S = {} THEN <<>>
    ELSE LET m == CHOOSE x \in S : \A y \in S : x <= y
         IN <<m>> \o AsList(S \ {m})

\* orderBy: {createdAt: 'desc'} (the newest waiter first)
NewestWaiting(s) ==
    IF WaitingOf(s) = {} THEN 0
    ELSE CHOOSE r \in WaitingOf(s) :
            \A q \in WaitingOf(s) : requests[q].createdAt <= requests[r].createdAt

\* findMany({where: {toSlotId, status: "待ち"}, orderBy: {createdAt: 'asc'}, take: 1});
\* 0 when the list is empty
OldestWaiting(s) ==
    IF WaitingOf(s) = {} THEN 0
    ELSE CHOOSE r \in WaitingOf(s) :
            \A q \in WaitingOf(s) : requests[r].createdAt <= requests[q].createdAt

Loc0 == [op |-> "none", slot |-> NoSlot, req |-> 0, tok |-> 0, list |-> <<>>, old |-> 0,
         arg |-> <<>>, promoted |-> <<>>, now |-> 0]

\* an optional field of a request body: <<>> when it is undefined
Opt(S) == {<<>>} \cup {<<v>> : v \in S}

NoMail == [conf |-> 0, exp |-> 0]

\* nothing observed yet
Obs0 == [op |-> "none", slot |-> NoSlot, arg |-> <<>>, running |-> FALSE,
         accepted |-> FALSE, promoted |-> <<>>, failed |-> "none"]

\* rows a handler that passed its checks is about to insert
Creating == {p \in Procs : pc[p] \in {"book_create", "wl_create"}}

\* fewer than n Request rows exist or are about to be inserted
Room(n) == Len(requests) + Cardinality(Creating) < n

Goto(p, label) == pc' = [pc EXCEPT ![p] = label]

\* the handler returns (res.json / res.send / return): the instance is free again
Finish(p) ==
    /\ pc' = [pc EXCEPT ![p] = "idle"]
    /\ loc' = [loc EXCEPT ![p] = Loc0]

\* ------------------------------------------------------------ initial
SlotRow(b, st, a) ==
    [exists |-> TRUE, band |-> b, start |-> st, allowed |-> a, used |-> 0, wl |-> 0,
     current |-> 0]

NoSlotRow ==
    [exists |-> FALSE, band |-> "shokyu", start |-> 0, allowed |-> 0, used |-> 0, wl |-> 0,
     current |-> 0]

\* slotId = `${date}_${startTime}_${band}`: the id fixes the class band and the
\* lesson start a slot is created with
SlotBand(s) == IF s = "s1" THEN "shokyu" ELSE "chukyu"

SlotStart(s) == IF s = "s1" THEN OneHour + 1 ELSE 0

\* a database holding the single slot s1 and no request
Init ==
    /\ \E a \in 0..MaxAllowed :
          slots = [s \in Slots |-> IF s = "s1" THEN SlotRow(SlotBand(s), SlotStart(s), a)
                                   ELSE NoSlotRow]
    /\ requests = <<>>
    /\ notices = <<>>
    /\ now = 0
    /\ nextToken = 0
    /\ mails = <<>>
    /\ pc = [p \in Procs |-> "idle"]
    /\ loc = [p \in Procs |-> Loc0]
    /\ db0 = DB
    /\ obs = Obs0

\* ---------------------------------------------- POST /api/search-slots
\* the three status codes of the search result: "open" is 〇, "last" is △, "full" is ×
\* a classification without the △ code
StatusCodeNoLast(row) == IF Remaining(row) >= 1 THEN "open" ELSE "full"

\* if (remainingSlots >= 2) 〇 else if (remainingSlots === 1) △ else ×
StatusCode(row) ==
    IF Remaining(row) >= 2 THEN "open"
    ELSE IF Remaining(row) = 1 THEN "last"
    ELSE "full"

\* slots.map(slot => ({slotId, statusCode, remainingSlots, waitlistCount, ...})) over the
\* slots of the declared class band that have not started (all dates lie in the range)
SearchResults(band) ==
    [s \in {x \in Slots : slots[x].exists /\ slots[x].band = band /\ slots[x].start >= now}
        |-> [statusCode |-> StatusCode(slots[s]),
             remainingSlots |-> Remaining(slots[s]),
             waitlistCount |-> slots[s].wl]]

\* the handler reads and answers; it writes nothing
SearchSlots(p, band) ==
    /\ pc[p] = "idle"
    /\ Finish(p)
    /\ UNCHANGED <<slots, requests, notices, now, nextToken, mails>>

\* ------------------------------------------------------- POST /api/book
\* a booking check that ignores the declared class band
BookFindAnyBand(p, s, band) ==
    /\ pc[p] = "idle"
    /\ IF ~slots[s].exists \/ Remaining(slots[s]) < 1
       THEN Finish(p)
       ELSE /\ Goto(p, "book_create")
            /\ loc' = [loc EXCEPT ![p] = [Loc0 EXCEPT !.op = "book", !.slot = s,
                                                      !.old = slots[s].start]]
    /\ UNCHANGED <<slots, requests, notices, now, nextToken, mails>>

\* findUnique; 404 without the slot; 400 on another class band; 400 when
\* remainingSlots < 1
BookFind(p, s, band) ==
    /\ pc[p] = "idle"
    /\ LET slot == slots[s]
           l == [Loc0 EXCEPT !.op = "book", !.slot = s, !.old = slot.start]
       IN IF \/ ~slot.exists
             \/ slot.band # band
             \/ Remaining(slot) < 1
          THEN Finish(p)
          ELSE /\ Goto(p, "book_create")
               /\ loc' = [loc EXCEPT ![p] = l]
    /\ UNCHANGED <<slots, requests, notices, now, nextToken, mails>>

NewRequest(s, st, start, email) ==
    [slot |-> s, status |-> st, token |-> 0, createdAt |-> Len(requests) + 1,
     start |-> start, email |-> email, absence |-> 0]

BookCreate(p) ==
    /\ pc[p] = "book_create"
    /\ requests' = Append(requests, NewRequest(loc[p].slot, CONFIRMED, loc[p].old, FALSE))
    /\ mails' = Append(mails, NoMail)
    /\ Goto(p, "book_update")
    /\ UNCHANGED <<slots, notices, now, nextToken, loc>>

\* a booking that leaves the counter alone
BookUpdateNone(p) ==
    /\ pc[p] = "book_update"
    /\ Finish(p)
    /\ UNCHANGED <<slots, requests, notices, now, nextToken, mails>>

\* await prisma.classSlot.update({data: {capacityMakeupUsed: {increment: 1}}}); res.json
BookUpdate(p) ==
    /\ pc[p] = "book_update"
    /\ LET s == loc[p].slot
       IN IF slots[s].exists
          THEN /\ slots' = [slots EXCEPT ![s].used = @ + 1]
               /\ Finish(p)
          ELSE /\ UNCHANGED slots
               /\ Finish(p)
    /\ UNCHANGED <<requests, notices, now, nextToken, mails>>

\* --------------------------------------------------- POST /api/waitlist
WaitlistFind(p, s, band) ==
    /\ pc[p] = "idle"
    /\ LET slot == slots[s]
           l == [Loc0 EXCEPT !.op = "waitlist", !.slot = s, !.old = slot.start]
       IN IF ~slot.exists \/ slot.band # band
          THEN Finish(p)
          ELSE /\ Goto(p, "wl_create")
               /\ loc' = [loc EXCEPT ![p] = l]
    /\ UNCHANGED <<slots, requests, notices, now, nextToken, mails>>

WaitlistCreate(p) ==
    /\ pc[p] = "wl_create"
    /\ requests' = Append(requests, NewRequest(loc[p].slot, WAITING, loc[p].old, TRUE))
    /\ mails' = Append(mails, NoMail)
    /\ Goto(p, "wl_update")
    /\ UNCHANGED <<slots, notices, now, nextToken, loc>>

\* a join that counts the request as a used unit
WaitlistUpdateUsed(p) ==
    /\ pc[p] = "wl_update"
    /\ slots' = [slots EXCEPT ![loc[p].slot].used = @ + 1]
    /\ Finish(p)
    /\ UNCHANGED <<requests, notices, now, nextToken, mails>>

\* await prisma.classSlot.update({data: {waitlistCount: {increment: 1}}}); res.json
WaitlistUpdate(p) ==
    /\ pc[p] = "wl_update"
    /\ LET s == loc[p].slot
       IN IF slots[s].exists
          THEN /\ slots' = [slots EXCEPT ![s].wl = @ + 1]
               /\ Finish(p)
          ELSE /\ UNCHANGED slots
               /\ Finish(p)
    /\ UNCHANGED <<requests, notices, now, nextToken, mails>>

\* ---------------------------------------------------- confirmNextWaiter
\* a loop head that does not look at the remaining capacity
CnwFindSlotAnyCapacity(p) ==
    /\ pc[p] = "cnw_slot"
    /\ IF ~slots[loc[p].slot].exists
       THEN Finish(p)
       ELSE /\ Goto(p, "cnw_query")
            /\ UNCHANGED loc
    /\ UNCHANGED <<slots, requests, notices, now, nextToken, mails>>

\* while (true) { const slot = await findUnique(slotId); if (!slot) return;
\*                if (remainingSlots < 1) return;
CnwFindSlot(p) ==
    /\ pc[p] = "cnw_slot"
    /\ LET slot == slots[loc[p].slot]
       IN IF ~slot.exists \/ Remaining(slot) < 1
          THEN Finish(p)
          ELSE /\ Goto(p, "cnw_query")
               /\ UNCHANGED loc
    /\ UNCHANGED <<slots, requests, notices, now, nextToken, mails>>

\* the request the promotion query hands back (0: none)
NextWaiter(s) == OldestWaiting(s)

\* waitingRequests = await findMany(...take: 1); if (length === 0) return;
\* nextRequest = waitingRequests[0]; declineToken = createId();
CnwFindWaiting(p) ==
    /\ pc[p] = "cnw_query"
    /\ LET r == NextWaiter(loc[p].slot)
       IN IF r = 0
          THEN /\ Finish(p)
               /\ UNCHANGED nextToken
          ELSE /\ nextToken' = nextToken + 1
               /\ loc' = [loc EXCEPT ![p].req = r, ![p].tok = nextToken + 1]
               /\ Goto(p, "cnw_req")
    /\ UNCHANGED <<slots, requests, notices, now, mails>>

\* await prisma.request.update({where: {id}, data: {status: "確定", declineToken}})
CnwUpdateRequest(p) ==
    /\ pc[p] = "cnw_req"
    /\ requests' = [requests EXCEPT ![loc[p].req].status = CONFIRMED,
                                    ![loc[p].req].token = loc[p].tok]
    /\ loc' = [loc EXCEPT ![p].promoted = Append(@, loc[p].req)]
    /\ Goto(p, "cnw_slotupd")
    /\ UNCHANGED <<slots, notices, now, nextToken, mails>>

\* await prisma.classSlot.update({capacityMakeupUsed: {increment: 1},
\*                                waitlistCount: {decrement: 1}})
CnwUpdateSlot(p) ==
    /\ pc[p] = "cnw_slotupd"
    /\ LET s == loc[p].slot
       IN IF slots[s].exists
          THEN /\ slots' = [slots EXCEPT ![s].used = @ + 1, ![s].wl = @ - 1]
               /\ IF requests[loc[p].req].email
                  THEN /\ Goto(p, "cnw_mail")
                       /\ UNCHANGED loc
                  ELSE /\ Goto(p, "cnw_slot")
                       /\ loc' = [loc EXCEPT ![p].req = 0, ![p].tok = 0]
          ELSE /\ UNCHANGED slots
               /\ Finish(p)
    /\ UNCHANGED <<requests, notices, now, nextToken, mails>>

\* a confirmation mail whose failure ends the call
CnwSendMailRethrows(p) ==
    /\ pc[p] = "cnw_mail"
    /\ mails' = [mails EXCEPT ![loc[p].req].conf = @ + 1]
    /\ Finish(p)
    /\ UNCHANGED <<slots, requests, notices, now, nextToken>>

\* sendConfirmationEmail rejects (no mail client, address refused): the catch logs the
\* error and the loop goes on as after a delivered mail
CnwSendMailThrows(p) ==
    /\ pc[p] = "cnw_mail"
    /\ mails' = [mails EXCEPT ![loc[p].req].conf = @ + 1]
    /\ Goto(p, "cnw_slot")
    /\ loc' = [loc EXCEPT ![p].req = 0, ![p].tok = 0]
    /\ UNCHANGED <<slots, requests, notices, now, nextToken>>

\* a promotion that returns after its first mail instead of looping
CnwSendMailOnce(p) ==
    /\ pc[p] = "cnw_mail"
    /\ mails' = [mails EXCEPT ![loc[p].req].conf = @ + 1]
    /\ Finish(p)
    /\ UNCHANGED <<slots, requests, notices, now, nextToken>>

\* try { await sendConfirmationEmail(...) } catch { console.error }: the attempt is
\* counted whether it succeeds or throws, and the loop goes on
CnwSendMail(p) ==
    /\ pc[p] = "cnw_mail"
    /\ mails' = [mails EXCEPT ![loc[p].req].conf = @ + 1]
    /\ Goto(p, "cnw_slot")
    /\ loc' = [loc EXCEPT ![p].req = 0, ![p].tok = 0]
    /\ UNCHANGED <<slots, requests, notices, now, nextToken>>

\* ------------------------------------- POST /admin/update-slot-capacity
\* a, u, c: capacityMakeupAllowed, capacityMakeupUsed and capacityCurrent of the body
\* (each optional)
CapacityFind(p, s, a, u, c) ==
    /\ pc[p] = "idle"
    /\ LET slot == slots[s]
           l == [Loc0 EXCEPT !.op = "capacity", !.slot = s, !.arg = <<a, u, c>>,
                             !.old = Remaining(slot)]
       IN IF ~slot.exists
          THEN Finish(p)
          ELSE /\ Goto(p, "cap_update")
               /\ loc' = [loc EXCEPT ![p] = l]
    /\ UNCHANGED <<slots, requests, notices, now, nextToken, mails>>

\* an update that writes every counter, taking 0 for the ones the body omits
ApplyCapacityAll(row, a, u, c) ==
    [row EXCEPT !.allowed = IF a = <<>> THEN 0 ELSE a[1],
                !.used = IF u = <<>> THEN 0 ELSE u[1],
                !.current = IF c = <<>> THEN 0 ELSE c[1]]

\* updateData holds only the fields the body provides
ApplyCapacity(row, a, u, c) ==
    [row EXCEPT !.allowed = IF a = <<>> THEN @ ELSE a[1],
                !.used = IF u = <<>> THEN @ ELSE u[1],
                !.current = IF c = <<>> THEN @ ELSE c[1]]

CapacityUpdate(p) ==
    /\ pc[p] = "cap_update"
    /\ LET s == loc[p].slot
       IN IF slots[s].exists
          THEN /\ slots' = [slots EXCEPT ![s] = ApplyCapacity(@, loc[p].arg[1], loc[p].arg[2],
                                                                loc[p].arg[3])]
               /\ Goto(p, "cap_reread")
               /\ loc' = [loc EXCEPT ![p].arg = <<>>]
          ELSE /\ UNCHANGED slots
               /\ Finish(p)
    /\ UNCHANGED <<requests, notices, now, nextToken, mails>>

\* a trigger that fires only from an overbooked slot
CapacityTriggersBelow(old, new) == old < 0 /\ new >= 1

\* if (oldRemainingSlots <= 0 && newRemainingSlots >= 1) await confirmNextWaiter(slotId)
CapacityTriggers(old, new) == old <= 0 /\ new >= 1

CapacityReread(p) ==
    /\ pc[p] = "cap_reread"
    /\ LET slot == slots[loc[p].slot]
       IN IF slot.exists /\ CapacityTriggers(loc[p].old, Remaining(slot))
          THEN /\ Goto(p, "cnw_slot")
               /\ loc' = [loc EXCEPT ![p].old = 0]
          ELSE Finish(p)
    /\ UNCHANGED <<slots, requests, notices, now, nextToken, mails>>

\* ------------------------------------------------ GET /api/wait-decline
\* prisma.request.findFirst({where: {declineToken: token}}); 0 when there is none
FindByToken(tok) ==
    IF \E r \in ReqIds : requests[r].token = tok
    THEN CHOOSE r \in ReqIds : requests[r].token = tok
    ELSE 0

\* a decline that accepts a request of any status
DeclineFindAnyStatus(p, tok) ==
    /\ pc[p] = "idle"
    /\ LET r == IF tok = 0 THEN 0 ELSE FindByToken(tok)
       IN IF r = 0
          THEN Finish(p)
          ELSE /\ Goto(p, "dec_update")
               /\ loc' = [loc EXCEPT ![p] = [Loc0 EXCEPT !.op = "decline", !.tok = tok,
                                                         !.req = r, !.slot = requests[r].slot]]
    /\ UNCHANGED <<slots, requests, notices, now, nextToken, mails>>

\* tok = 0: no token in the query string
DeclineFind(p, tok) ==
    /\ pc[p] = "idle"
    /\ LET r == IF tok = 0 THEN 0 ELSE FindByToken(tok)
           l == [Loc0 EXCEPT !.op = "decline", !.tok = tok, !.req = r]
       IN IF r = 0 \/ requests[r].status # CONFIRMED
          THEN Finish(p)
          ELSE /\ Goto(p, "dec_update")
               /\ loc' = [loc EXCEPT ![p] = [l EXCEPT !.slot = requests[r].slot]]
    /\ UNCHANGED <<slots, requests, notices, now, nextToken, mails>>

\* await prisma.request.update({where: {id: request.id}, data: {status: "却下"}})
DeclineUpdate(p) ==
    /\ pc[p] = "dec_update"
    /\ requests' = [requests EXCEPT ![loc[p].req].status = DECLINED]
    /\ Goto(p, "dec_slot")
    /\ UNCHANGED <<slots, notices, now, nextToken, mails, loc>>

\* a decline that frees the unit and leaves the promotion to a later trigger
DeclineSlotDeferred(p) ==
    /\ pc[p] = "dec_slot"
    /\ slots' = [slots EXCEPT ![loc[p].slot].used = @ - 1]
    /\ Finish(p)
    /\ UNCHANGED <<requests, notices, now, nextToken, mails>>

\* await prisma.classSlot.update({capacityMakeupUsed: {decrement: 1}});
\* await confirmNextWaiter(request.toSlotId)
DeclineSlot(p) ==
    /\ pc[p] = "dec_slot"
    /\ LET s == loc[p].slot
       IN IF slots[s].exists
          THEN /\ slots' = [slots EXCEPT ![s].used = @ - 1]
               /\ Goto(p, "cnw_slot")
               /\ loc' = [loc EXCEPT ![p].req = 0, ![p].tok = 0]
          ELSE /\ UNCHANGED slots
               /\ Finish(p)
    /\ UNCHANGED <<requests, notices, now, nextToken, mails>>


\* ---------------------------------------------- POST /admin/close-waitlist
\* a gate that still refuses at exactly one hour before the start
CloseTooEarlyInclusive(t, start) == t <= start - OneHour

\* if (new Date() < oneHourBefore) return 400
CloseTooEarly(t, start) == t < start - OneHour

CloseFind(p, s) ==
    /\ pc[p] = "idle"
    /\ LET slot == slots[s]
       IN IF ~slot.exists \/ CloseTooEarly(now, slot.start)
          THEN Finish(p)
          ELSE /\ Goto(p, "cl_query")
               /\ loc' = [loc EXCEPT ![p] = [Loc0 EXCEPT !.op = "close", !.slot = s]]
    /\ UNCHANGED <<slots, requests, notices, now, nextToken, mails>>

\* waitingRequests = await findMany({where: {toSlotId, status: "待ち"}})
CloseQuery(p) ==
    /\ pc[p] = "cl_query"
    /\ LET list == AsList(WaitingOf(loc[p].slot))
       IN /\ loc' = [loc EXCEPT ![p].list = list]
          /\ IF list = <<>> THEN Goto(p, "cl_slot") ELSE Goto(p, "cl_req")
    /\ UNCHANGED <<slots, requests, notices, now, nextToken, mails>>

\* where the loop over waitingRequests goes after the request at the head of list
CloseAfter(p) ==
    /\ loc' = [loc EXCEPT ![p].list = Tail(@)]
    /\ IF Tail(loc[p].list) = <<>> THEN Goto(p, "cl_slot") ELSE Goto(p, "cl_req")

\* await prisma.request.update({where: {id: request.id}, data: {status: "期限切れ"}})
CloseExpire(p) ==
    /\ pc[p] = "cl_req"
    /\ LET r == Head(loc[p].list)
       IN /\ requests' = [requests EXCEPT ![r].status = EXPIRED]
          /\ IF requests[r].email
             THEN /\ Goto(p, "cl_mail")
                  /\ UNCHANGED loc
             ELSE CloseAfter(p)
    /\ UNCHANGED <<slots, notices, now, nextToken, mails>>

\* try { await sendExpiredEmail(...) } catch { console.error }
CloseMail(p) ==
    /\ pc[p] = "cl_mail"
    /\ mails' = [mails EXCEPT ![Head(loc[p].list)].exp = @ + 1]
    /\ CloseAfter(p)
    /\ UNCHANGED <<slots, requests, notices, now, nextToken>>

\* await prisma.classSlot.update({data: {waitlistCount: 0, lastNotifiedRequestId: null}})
CloseUpdateSlot(p) ==
    /\ pc[p] = "cl_slot"
    /\ IF slots[loc[p].slot].exists
       THEN slots' = [slots EXCEPT ![loc[p].slot].wl = 0]
       ELSE UNCHANGED slots
    /\ Finish(p)
    /\ UNCHANGED <<requests, notices, now, nextToken, mails>>

\* ------------------------------------------ scheduler.ts: the cron callback
\* a window that leaves out its two ends
InWindowOpen(t, start) == t < start /\ start < t + OneHour

\* toSlotStartDateTime: {lte: oneHourFromNow, gte: now}
InWindow(t, start) == t <= start /\ start <= t + OneHour

\* a sweep query that returns one request per run
ExpiringOne(t) ==
    LET S == {r \in ReqIds : requests[r].status = WAITING
                              /\ t <= requests[r].start /\ requests[r].start <= t + OneHour}
    IN IF S = {} THEN {} ELSE {CHOOSE r \in S : \A q \in S : r <= q}

\* prisma.request.findMany({where: {status: "待ち", toSlotStartDateTime: {...}}})
Expiring(t) ==
    {r \in ReqIds : requests[r].status = WAITING /\ InWindow(t, requests[r].start)}

\* requestsBySlot, flattened: the groups in the order their slot is first met, each
\* group's requests in row order
RECURSIVE Grouped(_)
Grouped(list) ==
    IF list = <<>> THEN <<>>
    ELSE LET s == requests[Head(list)].slot
         IN SelectSeq(list, LAMBDA r : requests[r].slot = s)
            \o Grouped(SelectSeq(list, LAMBDA r : requests[r].slot # s))

\* the requests of one group the loop `for (const request of requests)` goes through
GroupRequests(list) == list

\* the callback starts: const now = new Date(); the first query is awaited
CronFire(p) ==
    /\ pc[p] = "idle"
    /\ Goto(p, "sw_start")
    /\ loc' = [loc EXCEPT ![p] = [Loc0 EXCEPT !.op = "sweep", !.now = now]]
    /\ UNCHANGED <<slots, requests, notices, now, nextToken, mails>>

\* expiringRequests = await findMany(...); if (expiringRequests.length > 0) {...}
SweepQuery(p) ==
    /\ pc[p] = "sw_start"
    /\ LET list == Grouped(AsList(Expiring(loc[p].now)))
       IN /\ loc' = [loc EXCEPT ![p].list = list]
          /\ IF list = <<>> THEN Goto(p, "sw_absq") ELSE Goto(p, "sw_slots")
    /\ UNCHANGED <<slots, requests, notices, now, nextToken, mails>>

\* slots = await findMany({where: {id: {in: slotIds}}}); groups whose slot is not in
\* slotMap are skipped (`if (!slot) continue`)
SweepFindSlots(p) ==
    /\ pc[p] = "sw_slots"
    /\ LET list == SelectSeq(loc[p].list, LAMBDA r : slots[requests[r].slot].exists)
       IN IF list = <<>>
          THEN /\ loc' = [loc EXCEPT ![p].list = <<>>]
               /\ Goto(p, "sw_absq")
          ELSE /\ loc' = [loc EXCEPT ![p].list = list, ![p].slot = requests[Head(list)].slot]
               /\ Goto(p, "sw_req")
    /\ UNCHANGED <<slots, requests, notices, now, nextToken, mails>>

\* where the loop over a group's requests goes after the request at the head of list
SweepAfter(p) ==
    /\ loc' = [loc EXCEPT ![p].list = Tail(@)]
    /\ IF Tail(loc[p].list) # <<>> /\ requests[Head(Tail(loc[p].list))].slot = loc[p].slot
       THEN Goto(p, "sw_req")
       ELSE Goto(p, "sw_count")

\* after the update of the request: the notice, the mail, or the next request
SweepAfterExpire(p, r) ==
    IF requests[r].absence # 0
    THEN /\ Goto(p, "sw_absfind")
         /\ UNCHANGED loc
    ELSE IF requests[r].email
         THEN /\ Goto(p, "sw_mail")
              /\ UNCHANGED loc
         ELSE SweepAfter(p)

\* await prisma.request.update({where: {id: request.id}, data: {status: "期限切れ"}})
SweepExpire(p) ==
    /\ pc[p] = "sw_req"
    /\ LET r == Head(GroupRequests(loc[p].list))
       IN /\ requests' = [requests EXCEPT ![r].status = EXPIRED]
          /\ SweepAfterExpire(p, r)
    /\ UNCHANGED <<slots, notices, now, nextToken, mails>>

\* absence = await prisma.absenceNotice.findUnique({where: {id: request.absenceNoticeId}})
SweepFindAbsence(p) ==
    /\ pc[p] = "sw_absfind"
    /\ loc' = [loc EXCEPT ![p].req = requests[Head(loc[p].list)].absence]
    /\ Goto(p, "sw_absupd")
    /\ UNCHANGED <<slots, requests, notices, now, nextToken, mails>>

\* a status choice that takes the deadline itself as passed
NextStatusInclusive(t, deadline) == IF t >= deadline THEN "EXPIRED" ELSE "ABSENT_LOGGED"

\* nextStatus = now > absence.makeupDeadline ? "EXPIRED" : "ABSENT_LOGGED"
NextStatus(t, deadline) == IF t > deadline THEN "EXPIRED" ELSE "ABSENT_LOGGED"

\* await prisma.absenceNotice.update({data: {makeupStatus: nextStatus, makeupSlotId: null}})
SweepUpdateAbsence(p) ==
    /\ pc[p] = "sw_absupd"
    /\ LET a == loc[p].req
       IN notices' = [notices EXCEPT ![a].status = NextStatus(loc[p].now, notices[a].deadline),
                                     ![a].makeupSlot = NoSlot]
    /\ IF requests[Head(loc[p].list)].email
       THEN /\ Goto(p, "sw_mail")
            /\ loc' = [loc EXCEPT ![p].req = 0]
       ELSE /\ loc' = [loc EXCEPT ![p].req = 0, ![p].list = Tail(@)]
            /\ IF /\ Tail(loc[p].list) # <<>>
                  /\ requests[Head(Tail(loc[p].list))].slot = loc[p].slot
               THEN Goto(p, "sw_req")
               ELSE Goto(p, "sw_count")
    /\ UNCHANGED <<slots, requests, now, nextToken, mails>>

\* try { await sendExpiredEmail(...) } catch { console.error }
SweepMail(p) ==
    /\ pc[p] = "sw_mail"
    /\ mails' = [mails EXCEPT ![Head(loc[p].list)].exp = @ + 1]
    /\ SweepAfter(p)
    /\ UNCHANGED <<slots, requests, notices, now, nextToken>>

\* remainingWaiters = await prisma.request.count({where: {toSlotId, status: "待ち"}})
SweepCount(p) ==
    /\ pc[p] = "sw_count"
    /\ loc' = [loc EXCEPT ![p].old = Cardinality(WaitingOf(loc[p].slot))]
    /\ Goto(p, "sw_slotupd")
    /\ UNCHANGED <<slots, requests, notices, now, nextToken, mails>>

\* await prisma.classSlot.update({data: {waitlistCount: remainingWaiters, ...}}); an
\* update of a missing row throws out of the callback
SweepUpdateSlot(p) ==
    /\ pc[p] = "sw_slotupd"
    /\ LET s == loc[p].slot
       IN IF ~slots[s].exists
          THEN /\ UNCHANGED slots
               /\ Finish(p)
          ELSE /\ slots' = [slots EXCEPT ![s].wl = loc[p].old]
               /\ IF loc[p].list = <<>>
                  THEN /\ Goto(p, "sw_absq")
                       /\ loc' = [loc EXCEPT ![p].old = 0, ![p].slot = NoSlot]
                  ELSE /\ Goto(p, "sw_req")
                       /\ loc' = [loc EXCEPT ![p].old = 0,
                                             ![p].slot = requests[Head(loc[p].list)].slot]
    /\ UNCHANGED <<requests, notices, now, nextToken, mails>>

\* a stale absence query that takes the deadline itself as passed
ExpiredAbsencesInclusive(t) ==
    {a \in 1..Len(notices) :
        notices[a].deadline <= t /\ notices[a].status \in ACTIVE_ABSENCE_STATUSES}

\* findMany({where: {makeupDeadline: {lt: now}, makeupStatus: {in: ACTIVE_ABSENCE_STATUSES}}})
ExpiredAbsences(t) ==
    {a \in 1..Len(notices) :
        notices[a].deadline < t /\ notices[a].status \in ACTIVE_ABSENCE_STATUSES}

SweepFindExpiredAbsences(p) ==
    /\ pc[p] = "sw_absq"
    /\ LET list == AsList(ExpiredAbsences(loc[p].now))
       IN IF list = <<>>
          THEN Finish(p)
          ELSE /\ loc' = [loc EXCEPT ![p].list = list]
               /\ Goto(p, "sw_absexp")
    /\ UNCHANGED <<slots, requests, notices, now, nextToken, mails>>

\* await prisma.absenceNotice.update({data: {makeupStatus: "EXPIRED", makeupSlotId: null}})
SweepExpireAbsence(p) ==
    /\ pc[p] = "sw_absexp"
    /\ notices' = [notices EXCEPT ![Head(loc[p].list)].status = "EXPIRED",
                                  ![Head(loc[p].list)].makeupSlot = NoSlot]
    /\ IF Tail(loc[p].list) = <<>>
       THEN Finish(p)
       ELSE /\ loc' = [loc EXCEPT ![p].list = Tail(@)]
            /\ UNCHANGED pc
    /\ UNCHANGED <<slots, requests, now, nextToken, mails>>

\* ------------------------------------------- POST /api/admin/create-slot
CreateSlotFind(p, s, a) ==
    /\ pc[p] = "idle"
    /\ IF slots[s].exists
       THEN Finish(p)
       ELSE /\ Goto(p, "cs_create")
            /\ loc' = [loc EXCEPT ![p] = [Loc0 EXCEPT !.op = "create", !.slot = s, !.old = a]]
    /\ UNCHANGED <<slots, requests, notices, now, nextToken, mails>>

\* await prisma.classSlot.create({data: {..., capacityMakeupUsed: 0, ...}}); a second
\* row with the same id is refused by the primary key
CreateSlotInsert(p) ==
    /\ pc[p] = "cs_create"
    /\ LET s == loc[p].slot
       IN IF slots[s].exists
          THEN UNCHANGED slots
          ELSE slots' = [slots EXCEPT ![s] = SlotRow(SlotBand(s), SlotStart(s), loc[p].old)]
    /\ Finish(p)
    /\ UNCHANGED <<requests, notices, now, nextToken, mails>>

\* ---------------------------------------------- PUT /api/admin/update-slot
\* existing = await findUnique({where: {id}}); 404 without the slot.  Of the optional
\* fields capacityMakeupAllowed (a) and the date and start time, which together give
\* lessonStartDateTime (st), are kept here; each is <<>> when it is not sent
UpdateSlotFind(p, s, a, st) ==
    /\ pc[p] = "idle"
    /\ IF ~slots[s].exists
       THEN Finish(p)
       ELSE /\ Goto(p, "us_update")
            /\ loc' = [loc EXCEPT ![p] = [Loc0 EXCEPT !.op = "update", !.slot = s,
                                                      !.arg = <<a, st>>]]
    /\ UNCHANGED <<slots, requests, notices, now, nextToken, mails>>

\* updateData.capacityMakeupAllowed, updateData.lessonStartDateTime
ApplyUpdate(row, a, st) ==
    [row EXCEPT !.allowed = IF a = <<>> THEN @ ELSE a[1],
                !.start = IF st = <<>> THEN @ ELSE st[1]]

\* await prisma.classSlot.update({where: {id}, data: updateData}); res.json(slot).
\* No Request row is written and confirmNextWaiter is not called
UpdateSlotWrite(p) ==
    /\ pc[p] = "us_update"
    /\ LET s == loc[p].slot
       IN IF slots[s].exists
          THEN slots' = [slots EXCEPT ![s] = ApplyUpdate(@, loc[p].arg[1], loc[p].arg[2])]
          ELSE UNCHANGED slots
    /\ Finish(p)
    /\ UNCHANGED <<requests, notices, now, nextToken, mails>>

\* ------------------------------------------- DELETE /api/admin/delete-slot
\* existing = await findUnique({where: {id}}); 404 without the slot
DeleteSlotFind(p, s) ==
    /\ pc[p] = "idle"
    /\ IF ~slots[s].exists
       THEN Finish(p)
       ELSE /\ Goto(p, "del_count")
            /\ loc' = [loc EXCEPT ![p] = [Loc0 EXCEPT !.op = "delete", !.slot = s]]
    /\ UNCHANGED <<slots, requests, notices, now, nextToken, mails>>

\* await prisma.request.count({where: {toSlotId: id}})
RequestsCount(s) == Cardinality({r \in ReqIds : requests[r].slot = s})

\* if (requestsCount > 0) return 400
DeleteSlotCount(p) ==
    /\ pc[p] = "del_count"
    /\ IF RequestsCount(loc[p].slot) > 0
       THEN Finish(p)
       ELSE /\ Goto(p, "del_delete")
            /\ UNCHANGED loc
    /\ UNCHANGED <<slots, requests, notices, now, nextToken, mails>>

\* await prisma.classSlot.delete({where: {id}}): the Request table has no foreign key
\* on toSlotId, so rows that point at the slot do not hold the delete back; without the
\* row the call rejects and the route answers 400
DeleteSlotRow(p) ==
    /\ pc[p] = "del_delete"
    /\ slots' = [slots EXCEPT ![loc[p].slot] = NoSlotRow]
    /\ Finish(p)
    /\ UNCHANGED <<requests, notices, now, nextToken, mails>>

\* the clock advances
Tick ==
    /\ now < MaxNow
    /\ now' = now + 1
    /\ UNCHANGED <<slots, requests, notices, nextToken, mails, pc, loc>>

\* ------------------------------------------------------ specifications
\* no operation is observed
Quiet == UNCHANGED <<db0, obs>>

\* Spec: two handler instances interleave at every store operation, on a database
\* with the slot s1; the admin edits capacityMakeupAllowed
Next ==
    \/ \E p \in Procs, s \in Slots, b \in Bands : Room(MaxReq) /\ BookFind(p, s, b) /\ Quiet
    \/ \E p \in Procs : BookCreate(p) /\ Quiet
    \/ \E p \in Procs : BookUpdate(p) /\ Quiet
    \/ \E p \in Procs, s \in Slots, b \in Bands :
          Room(MaxReq) /\ WaitlistFind(p, s, b) /\ Quiet
    \/ \E p \in Procs : WaitlistCreate(p) /\ Quiet
    \/ \E p \in Procs : WaitlistUpdate(p) /\ Quiet
    \/ \E p \in Procs, s \in Slots, a \in Opt(0..MaxAllowed) :
          CapacityFind(p, s, a, <<>>, <<>>) /\ Quiet
    \/ \E p \in Procs : CapacityUpdate(p) /\ Quiet
    \/ \E p \in Procs : CapacityReread(p) /\ Quiet
    \/ \E p \in Procs, tok \in 0..nextToken : DeclineFind(p, tok) /\ Quiet
    \/ \E p \in Procs : DeclineUpdate(p) /\ Quiet
    \/ \E p \in Procs : DeclineSlot(p) /\ Quiet
    \/ \E p \in Procs : CnwFindSlot(p) /\ Quiet
    \/ \E p \in Procs : CnwFindWaiting(p) /\ Quiet
    \/ \E p \in Procs : CnwUpdateRequest(p) /\ Quiet
    \/ \E p \in Procs : CnwUpdateSlot(p) /\ Quiet
    \/ \E p \in Procs : CnwSendMail(p) /\ Quiet
    \/ \E p \in Procs, s \in Slots : CloseFind(p, s) /\ Quiet
    \/ \E p \in Procs : CloseQuery(p) /\ Quiet
    \/ \E p \in Procs : CloseExpire(p) /\ Quiet
    \/ \E p \in Procs : CloseMail(p) /\ Quiet
    \/ \E p \in Procs : CloseUpdateSlot(p) /\ Quiet
    \/ \E p \in Procs : CronFire(p) /\ Quiet
    \/ \E p \in Procs : SweepQuery(p) /\ Quiet
    \/ \E p \in Procs : SweepFindSlots(p) /\ Quiet
    \/ \E p \in Procs : SweepExpire(p) /\ Quiet
    \/ \E p \in Procs : SweepMail(p) /\ Quiet
    \/ \E p \in Procs : SweepCount(p) /\ Quiet
    \/ \E p \in Procs : SweepUpdateSlot(p) /\ Quiet
    \/ \E p \in Procs : SweepFindExpiredAbsences(p) /\ Quiet
    \/ Tick /\ Quiet

Spec == Init /\ [][Next]_vars

\* SeqSpec: one handler instance, so every operation runs to completion before the
\* next begins; both slots, and admin edits of both counters.  The observer keeps
\* the database the operation began with (db0) and what the operation is (obs).
Begin(p, op, s, arg) ==
    /\ db0' = DB
    /\ obs' = [op |-> op, slot |-> s, arg |-> arg, running |-> pc'[p] # "idle",
               accepted |-> pc'[p] # "idle", promoted |-> <<>>, failed |-> "none"]

Watch(p) ==
    /\ db0' = db0
    /\ obs' = IF pc'[p] = "idle"
              THEN [obs EXCEPT !.running = FALSE, !.promoted = loc[p].promoted]
              ELSE obs

SeqNext ==
    \/ \E s \in Slots, b \in Bands :
          Room(MaxReq) /\ BookFind("p1", s, b) /\ Begin("p1", "book", s, <<b>>)
    \/ BookCreate("p1") /\ Watch("p1")
    \/ BookUpdate("p1") /\ Watch("p1")
    \/ \E s \in Slots, b \in Bands :
          Room(MaxReq) /\ WaitlistFind("p1", s, b) /\ Begin("p1", "waitlist", s, <<b>>)
    \/ WaitlistCreate("p1") /\ Watch("p1")
    \/ WaitlistUpdate("p1") /\ Watch("p1")
    \/ \E s \in Slots, a \in Opt(0..MaxAllowed), u \in Opt(0..MaxAllowed) :
          CapacityFind("p1", s, a, u, <<>>) /\ Begin("p1", "capacity", s, <<a, u>>)
    \/ CapacityUpdate("p1") /\ Watch("p1")
    \/ CapacityReread("p1") /\ Watch("p1")
    \/ \E tok \in 0..nextToken :
          DeclineFind("p1", tok) /\ Begin("p1", "decline", NoSlot, <<tok>>)
    \/ DeclineUpdate("p1") /\ Watch("p1")
    \/ DeclineSlot("p1") /\ Watch("p1")
    \/ CnwFindSlot("p1") /\ Watch("p1")
    \/ CnwFindWaiting("p1") /\ Watch("p1")
    \/ CnwUpdateRequest("p1") /\ Watch("p1")
    \/ CnwUpdateSlot("p1") /\ Watch("p1")
    \/ CnwSendMail("p1") /\ Watch("p1")
    \/ \E s \in Slots : CloseFind("p1", s) /\ Begin("p1", "close", s, <<now>>)
    \/ CloseQuery("p1") /\ Watch("p1")
    \/ CloseExpire("p1") /\ Watch("p1")
    \/ CloseMail("p1") /\ Watch("p1")
    \/ CloseUpdateSlot("p1") /\ Watch("p1")
    \/ CronFire("p1") /\ Begin("p1", "sweep", NoSlot, <<>>)
    \/ SweepQuery("p1") /\ Watch("p1")
    \/ SweepFindSlots("p1") /\ Watch("p1")
    \/ SweepExpire("p1") /\ Watch("p1")
    \/ SweepMail("p1") /\ Watch("p1")
    \/ SweepCount("p1") /\ Watch("p1")
    \/ SweepUpdateSlot("p1") /\ Watch("p1")
    \/ SweepFindExpiredAbsences("p1") /\ Watch("p1")
    \/ \E s \in Slots, a \in 0..MaxAllowed :
          CreateSlotFind("p1", s, a) /\ Begin("p1", "create", s, <<a>>)
    \/ CreateSlotInsert("p1") /\ Watch("p1")
    \/ Tick /\ pc["p1"] = "idle" /\ Quiet

SeqSpec == Init /\ [][SeqNext]_vars

\* PromoSpec: confirmNextWaiter("s1") has just been called, by one caller or by two at
\* once, on a drawn database: s1 with `used` booked requests and n waiting ones, and an
\* older waiting request of the full slot s2.
RECURSIVE Rows(_, _, _)
Rows(n, row, base) ==
    IF n = 0 THEN <<>>
    ELSE Rows(n - 1, row, base) \o <<[row EXCEPT !.createdAt = base + n]>>

WaitingRow(s) ==
    [slot |-> s, status |-> WAITING, token |-> 0, createdAt |-> 0,
     start |-> SlotStart(s), email |-> TRUE, absence |-> 0]

BookedRow(s) ==
    [slot |-> s, status |-> CONFIRMED, token |-> 0, createdAt |-> 0,
     start |-> SlotStart(s), email |-> FALSE, absence |-> 0]

Invoked(p, s) == [Loc0 EXCEPT !.op = "promote", !.slot = s]

InitPromo ==
    /\ \E a \in 0..MaxCap, n \in 0..MaxWait :
        \E u \in 0..a :
          /\ slots = [s \in Slots |->
                        IF s = "s1"
                        THEN [SlotRow(SlotBand(s), SlotStart(s), a) EXCEPT !.used = u, !.wl = n]
                        ELSE [SlotRow(SlotBand(s), SlotStart(s), 0) EXCEPT !.wl = 1]]
          /\ requests = Rows(1, WaitingRow("s2"), 0) \o Rows(u, BookedRow("s1"), 1)
                        \o Rows(n, WaitingRow("s1"), 1 + u)
    /\ notices = <<>>
    /\ now = 0
    /\ nextToken = 0
    /\ mails = [r \in 1..Len(requests) |-> NoMail]
    /\ \E I \in (SUBSET Procs) \ {{}} :
          /\ pc = [p \in Procs |-> IF p \in I THEN "cnw_slot" ELSE "idle"]
          /\ loc = [p \in Procs |-> IF p \in I THEN Invoked(p, "s1") ELSE Loc0]
          /\ obs = [Obs0 EXCEPT !.op = "promote", !.slot = "s1", !.arg = <<I>>,
                                !.running = TRUE, !.accepted = TRUE]
    /\ db0 = DB

PromoNext ==
    \/ \E p \in Procs : CnwFindSlot(p) /\ Watch(p)
    \/ \E p \in Procs : CnwFindWaiting(p) /\ Watch(p)
    \/ \E p \in Procs : CnwUpdateRequest(p) /\ Watch(p)
    \/ \E p \in Procs : CnwUpdateSlot(p) /\ Watch(p)
    \/ \E p \in Procs : CnwSendMail(p) /\ Watch(p)

PromoSpec == InitPromo /\ [][PromoNext]_vars

\* SweepSpec: the cron callback runs twice in immediate succession, with the same clock
\* reading, on a drawn database whose counters agree with its rows.  p1 is the first
\* run, p2 the second; db0 is the database the first run left.
SweepRequestRows ==
    [slot : Slots, status : {WAITING, CONFIRMED, EXPIRED}, token : {0}, createdAt : {0},
     start : {0}, email : BOOLEAN, absence : 0..MaxNotices]

NoticeRows ==
    [deadline : 0..MaxNow, status : AbsenceStatuses, makeupSlot : {NoSlot} \cup Slots]

\* the rows as the program writes them: the start copied from the slot, createdAt
\* ascending, the mail address the waitlist form requires
Stamp(rows) ==
    [i \in 1..Len(rows) |->
        [rows[i] EXCEPT !.createdAt = i, !.start = SlotStart(rows[i].slot)]]

Count(rows, s, st) ==
    Cardinality({i \in 1..Len(rows) : rows[i].slot = s /\ rows[i].status = st})

InitSweep ==
    /\ \E n \in 0..MaxSweepReq : \E rows \in [1..n -> SweepRequestRows] :
          /\ \A i \in 1..n : rows[i].status # WAITING => rows[i].email
          /\ requests = Stamp(rows)
    /\ \E k \in 0..MaxNotices : \E ns \in [1..k -> NoticeRows] :
          /\ \A r \in 1..Len(requests) : requests[r].absence <= k
          /\ notices = ns
    /\ slots = [s \in Slots |->
                  [SlotRow(SlotBand(s), SlotStart(s), MaxAllowed)
                     EXCEPT !.used = Count(requests, s, CONFIRMED),
                            !.wl = Count(requests, s, WAITING)]]
    /\ now \in 0..MaxNow
    /\ nextToken = 0
    /\ mails = [r \in 1..Len(requests) |-> NoMail]
    /\ pc = [p \in Procs |-> "sw_start"]
    /\ loc = [p \in Procs |-> [Loc0 EXCEPT !.op = "sweep", !.now = now]]
    /\ db0 = DB
    /\ obs = [Obs0 EXCEPT !.op = "sweep", !.arg = <<DB>>, !.running = TRUE, !.accepted = TRUE]

\* the second run starts when the first has ended; the first run's last step leaves
\* the database the second run starts from
Run(p) ==
    /\ p = "p2" => pc["p1"] = "idle"
    /\ db0' = IF p = "p1" /\ pc'["p1"] = "idle"
              THEN [slots |-> slots', requests |-> requests', notices |-> notices']
              ELSE db0
    /\ obs' = obs

SweepNext ==
    \/ \E p \in Procs : SweepQuery(p) /\ Run(p)
    \/ \E p \in Procs : SweepFindSlots(p) /\ Run(p)
    \/ \E p \in Procs : SweepExpire(p) /\ Run(p)
    \/ \E p \in Procs : SweepFindAbsence(p) /\ Run(p)
    \/ \E p \in Procs : SweepUpdateAbsence(p) /\ Run(p)
    \/ \E p \in Procs : SweepMail(p) /\ Run(p)
    \/ \E p \in Procs : SweepCount(p) /\ Run(p)
    \/ \E p \in Procs : SweepUpdateSlot(p) /\ Run(p)
    \/ \E p \in Procs : SweepFindExpiredAbsences(p) /\ Run(p)
    \/ \E p \in Procs : SweepExpireAbsence(p) /\ Run(p)

SweepSpec == InitSweep /\ [][SweepNext]_vars

\* RaceSpec: two clients act at once on a drawn database.  s1 has `used` confirmed
\* requests, each holding the decline token promotion gave it, and n waiting ones; each
\* handler instance serves one request (book, join or decline) and the two interleave
\* at every store operation.  obs.arg[p] is the request instance p served.
PromotedRows(s, u) ==
    [i \in 1..u |-> [slot |-> s, status |-> CONFIRMED, token |-> i, createdAt |-> i,
                     start |-> SlotStart(s), email |-> TRUE, absence |-> 0]]

InitRace ==
    /\ \E a \in 1..MaxCap, n \in 0..MaxWait :
        \E u \in 0..a :
          /\ slots = [s \in Slots |->
                        IF s = "s1"
                        THEN [SlotRow(SlotBand(s), SlotStart(s), a) EXCEPT !.used = u, !.wl = n]
                        ELSE NoSlotRow]
          /\ requests = PromotedRows("s1", u) \o Rows(n, WaitingRow("s1"), u)
          /\ nextToken = u
    /\ notices = <<>>
    /\ now = 0
    /\ mails = [r \in 1..Len(requests) |-> NoMail]
    /\ pc = [p \in Procs |-> "idle"]
    /\ loc = [p \in Procs |-> Loc0]
    /\ db0 = DB
    /\ obs = [Obs0 EXCEPT !.op = "race", !.slot = "s1", !.arg = [p \in Procs |-> <<>>],
                          !.running = TRUE, !.accepted = TRUE]

\* instance p takes its one request
Start(p, op, arg) ==
    /\ obs.arg[p] = <<>>
    /\ obs' = [obs EXCEPT !.arg[p] = <<op>> \o arg]
    /\ db0' = db0

RaceNext ==
    \/ \E p \in Procs, s \in Slots, b \in Bands : BookFind(p, s, b) /\ Start(p, "book", <<s, b>>)
    \/ \E p \in Procs : BookCreate(p) /\ Quiet
    \/ \E p \in Procs : BookUpdate(p) /\ Quiet
    \/ \E p \in Procs, s \in Slots, b \in Bands :
          WaitlistFind(p, s, b) /\ Start(p, "waitlist", <<s, b>>)
    \/ \E p \in Procs : WaitlistCreate(p) /\ Quiet
    \/ \E p \in Procs : WaitlistUpdate(p) /\ Quiet
    \/ \E p \in Procs, tok \in 0..nextToken : DeclineFind(p, tok) /\ Start(p, "decline", <<tok>>)
    \/ \E p \in Procs : DeclineUpdate(p) /\ Quiet
    \/ \E p \in Procs : DeclineSlot(p) /\ Quiet
    \/ \E p \in Procs : CnwFindSlot(p) /\ Quiet
    \/ \E p \in Procs : CnwFindWaiting(p) /\ Quiet
    \/ \E p \in Procs : CnwUpdateRequest(p) /\ Quiet
    \/ \E p \in Procs : CnwUpdateSlot(p) /\ Quiet
    \/ \E p \in Procs : CnwSendMail(p) /\ Quiet

RaceSpec == InitRace /\ [][RaceNext]_vars

\* CaseSpec: requests handled one at a time on a drawn database: s1 with `used` booked
\* requests and an empty waitlist, s2 unknown.  The observer works as in SeqSpec.
InitCase ==
    /\ \E a \in 0..MaxCase :
        \E u \in 0..a :
          /\ slots = [s \in Slots |->
                        IF s = "s1"
                        THEN [SlotRow(SlotBand(s), SlotStart(s), a) EXCEPT !.used = u]
                        ELSE NoSlotRow]
          /\ requests = Rows(u, BookedRow("s1"), 0)
    /\ notices = <<>>
    /\ now = 0
    /\ nextToken = 0
    /\ mails = [r \in 1..Len(requests) |-> NoMail]
    /\ pc = [p \in Procs |-> "idle"]
    /\ loc = [p \in Procs |-> Loc0]
    /\ db0 = DB
    /\ obs = Obs0

CaseNext ==
    \/ \E b \in Bands :
          SearchSlots("p1", b) /\ Begin("p1", "search", NoSlot, <<b, SearchResults(b)>>)
    \/ \E s \in Slots, b \in Bands :
          Room(MaxCaseRows) /\ BookFind("p1", s, b) /\ Begin("p1", "book", s, <<b>>)
    \/ BookCreate("p1") /\ Watch("p1")
    \/ BookUpdate("p1") /\ Watch("p1")
    \/ \E s \in Slots, b \in Bands :
          Room(MaxCaseRows) /\ WaitlistFind("p1", s, b) /\ Begin("p1", "waitlist", s, <<b>>)
    \/ WaitlistCreate("p1") /\ Watch("p1")
    \/ WaitlistUpdate("p1") /\ Watch("p1")
    \/ \E s \in Slots, a \in Opt(0..MaxCase) :
          CapacityFind("p1", s, a, <<>>, <<>>) /\ Begin("p1", "capacity", s, <<a, <<>>>>)
    \/ CapacityUpdate("p1") /\ Watch("p1")
    \/ CapacityReread("p1") /\ Watch("p1")
    \/ \E s \in Slots, a \in Opt(0..MaxCase) :
          UpdateSlotFind("p1", s, a, <<>>) /\ Begin("p1", "update", s, <<a>>)
    \/ UpdateSlotWrite("p1") /\ Watch("p1")
    \* nextToken + 1: a token no request holds
    \/ \E tok \in 0..(nextToken + 1) :
          DeclineFind("p1", tok) /\ Begin("p1", "decline", NoSlot, <<tok>>)
    \/ DeclineUpdate("p1") /\ Watch("p1")
    \/ DeclineSlot("p1") /\ Watch("p1")
    \/ CnwFindSlot("p1") /\ Watch("p1")
    \/ CnwFindWaiting("p1") /\ Watch("p1")
    \/ CnwUpdateRequest("p1") /\ Watch("p1")
    \/ CnwUpdateSlot("p1") /\ Watch("p1")
    \/ CnwSendMail("p1") /\ Watch("p1")

CaseSpec == InitCase /\ [][CaseNext]_vars

\* FailSpec: requests handled one at a time, starting from the slot s1 without
\* requests, where a store call may reject.  The rejection leaves the store as it is
\* and ends the handler (the route's catch answers 400; confirmNextWaiter has no catch
\* of its own around its store calls).  obs.failed is the place of the call that
\* rejected; the store is then left as the rejection found it.
Fail(p) ==
    /\ pc[p] \notin {"idle", "sw_start", "cnw_mail", "cl_mail", "sw_mail"}
    /\ Finish(p)
    /\ UNCHANGED <<slots, requests, notices, now, nextToken, mails>>

Failed(p) ==
    /\ db0' = db0
    /\ obs' = [obs EXCEPT !.running = FALSE, !.failed = pc[p], !.promoted = loc[p].promoted]

\* the scenario ends with the first rejected store call
Up == obs.failed = "none"

FailNext ==
    \/ \E s \in Slots, b \in Bands :
          Up /\ Room(MaxReq) /\ BookFind("p1", s, b) /\ Begin("p1", "book", s, <<b>>)
    \/ Up /\ BookCreate("p1") /\ Watch("p1")
    \/ Up /\ BookUpdate("p1") /\ Watch("p1")
    \/ \E s \in Slots, b \in Bands :
          Up /\ Room(MaxReq) /\ WaitlistFind("p1", s, b) /\ Begin("p1", "waitlist", s, <<b>>)
    \/ Up /\ WaitlistCreate("p1") /\ Watch("p1")
    \/ Up /\ WaitlistUpdate("p1") /\ Watch("p1")
    \/ \E s \in Slots, a \in Opt(0..MaxAllowed) :
          Up /\ CapacityFind("p1", s, a, <<>>, <<>>) /\ Begin("p1", "capacity", s, <<a, <<>>>>)
    \/ Up /\ CapacityUpdate("p1") /\ Watch("p1")
    \/ Up /\ CapacityReread("p1") /\ Watch("p1")
    \/ \E tok \in 0..nextToken :
          Up /\ DeclineFind("p1", tok) /\ Begin("p1", "decline", NoSlot, <<tok>>)
    \/ Up /\ DeclineUpdate("p1") /\ Watch("p1")
    \/ Up /\ DeclineSlot("p1") /\ Watch("p1")
    \/ Up /\ CnwFindSlot("p1") /\ Watch("p1")
    \/ Up /\ CnwFindWaiting("p1") /\ Watch("p1")
    \/ Up /\ CnwUpdateRequest("p1") /\ Watch("p1")
    \/ Up /\ CnwUpdateSlot("p1") /\ Watch("p1")
    \/ Up /\ CnwSendMail("p1") /\ Watch("p1")
    \/ Up /\ Fail("p1") /\ Failed("p1")

FailSpec == Init /\ [][FailNext]_vars

\* Slot deletion next to bookings and joins: from Init, each of the two handler
\* instances serves booking, waitlist, create-slot and delete-slot requests.
DeleteNext ==
    \/ \E p \in Procs, s \in Slots, b \in Bands :
          Room(MaxReq) /\ BookFind(p, s, b) /\ Quiet
    \/ \E p \in Procs : BookCreate(p) /\ Quiet
    \/ \E p \in Procs : BookUpdate(p) /\ Quiet
    \/ \E p \in Procs, s \in Slots, b \in Bands :
          Room(MaxReq) /\ WaitlistFind(p, s, b) /\ Quiet
    \/ \E p \in Procs : WaitlistCreate(p) /\ Quiet
    \/ \E p \in Procs : WaitlistUpdate(p) /\ Quiet
    \/ \E p \in Procs, s \in Slots, a \in 0..MaxAllowed : CreateSlotFind(p, s, a) /\ Quiet
    \/ \E p \in Procs : CreateSlotInsert(p) /\ Quiet
    \/ \E p \in Procs, s \in Slots : DeleteSlotFind(p, s) /\ Quiet
    \/ \E p \in Procs : DeleteSlotCount(p) /\ Quiet
    \/ \E p \in Procs : DeleteSlotRow(p) /\ Quiet

DeleteSpec == Init /\ [][DeleteNext]_vars

\* LiveSpec: one call of confirmNextWaiter by p1 on a drawn slot, while p2 serves at
\* most MaxOps further requests (joins and capacity edits, which may call
\* confirmNextWaiter themselves).  obs.arg counts the requests p2 has begun.  The event
\* loop runs every continuation that is ready, so each instance that is inside a
\* handler eventually takes its next step.
InitLive ==
    /\ \E a \in 0..MaxCap, n \in 0..MaxWait :
        \E u \in 0..a :
          /\ slots = [s \in Slots |->
                        IF s = "s1"
                        THEN [SlotRow(SlotBand(s), SlotStart(s), a) EXCEPT !.used = u, !.wl = n]
                        ELSE NoSlotRow]
          /\ requests = Rows(u, BookedRow("s1"), 0) \o Rows(n, WaitingRow("s1"), u)
    /\ notices = <<>>
    /\ now = 0
    /\ nextToken = 0
    /\ mails = [r \in 1..Len(requests) |-> NoMail]
    /\ pc = [p \in Procs |-> IF p = "p1" THEN "cnw_slot" ELSE "idle"]
    /\ loc = [p \in Procs |-> IF p = "p1" THEN Invoked(p, "s1") ELSE Loc0]
    /\ db0 = DB
    /\ obs = [Obs0 EXCEPT !.op = "promote", !.slot = "s1", !.arg = 0,
                          !.running = TRUE, !.accepted = TRUE]

\* p2 begins one more request
Arrive ==
    /\ obs.arg < MaxOps
    /\ db0' = db0
    /\ obs' = [obs EXCEPT !.arg = @ + 1]

\* p1's call is the one observed
Note(p) == IF p = "p1" THEN Watch(p) ELSE Quiet

\* the next step of the handler instance p is inside
Resume(p) ==
    \/ WaitlistCreate(p) /\ Note(p)
    \/ WaitlistUpdate(p) /\ Note(p)
    \/ CapacityUpdate(p) /\ Note(p)
    \/ CapacityReread(p) /\ Note(p)
    \/ CnwFindSlot(p) /\ Note(p)
    \/ CnwFindWaiting(p) /\ Note(p)
    \/ CnwUpdateRequest(p) /\ Note(p)
    \/ CnwUpdateSlot(p) /\ Note(p)
    \/ CnwSendMail(p) /\ Note(p)

LiveNext ==
    \/ \E s \in Slots, b \in Bands : WaitlistFind("p2", s, b) /\ Arrive
    \/ \E s \in Slots, a \in Opt(0..MaxCap) : CapacityFind("p2", s, a, <<>>, <<>>) /\ Arrive
    \/ \E p \in Procs : WaitlistCreate(p) /\ Note(p)
    \/ \E p \in Procs : WaitlistUpdate(p) /\ Note(p)
    \/ \E p \in Procs : CapacityUpdate(p) /\ Note(p)
    \/ \E p \in Procs : CapacityReread(p) /\ Note(p)
    \/ \E p \in Procs : CnwFindSlot(p) /\ Note(p)
    \/ \E p \in Procs : CnwFindWaiting(p) /\ Note(p)
    \/ \E p \in Procs : CnwUpdateRequest(p) /\ Note(p)
    \/ \E p \in Procs : CnwUpdateSlot(p) /\ Note(p)
    \/ \E p \in Procs : CnwSendMail(p) /\ Note(p)

LiveSpec == InitLive /\ [][LiveNext]_vars /\ \A p \in Procs : WF_vars(Resume(p))

\* MailSpec: one call of confirmNextWaiter on a drawn slot, where each confirmation
\* mail is either delivered or fails.  obs.arg lists the requests whose mail failed.
\* The oldest waiting request may reference an Absence Notice.
InitMail ==
    /\ \E a \in 0..MaxCap, n \in 0..MaxWait :
        \E u \in 0..a :
          /\ slots = [s \in Slots |->
                        IF s = "s1"
                        THEN [SlotRow(SlotBand(s), SlotStart(s), a) EXCEPT !.used = u, !.wl = n]
                        ELSE NoSlotRow]
          /\ \E k \in 0..MaxNotices : \E ns \in [1..k -> NoticeRows] : \E ref \in 0..k :
                /\ notices = ns
                /\ requests = [r \in 1..(u + n) |->
                      LET row == (Rows(u, BookedRow("s1"), 0) \o Rows(n, WaitingRow("s1"), u))[r]
                      IN IF r = u + 1 THEN [row EXCEPT !.absence = ref] ELSE row]
    /\ now = 0
    /\ nextToken = 0
    /\ mails = [r \in 1..Len(requests) |-> NoMail]
    /\ pc = [p \in Procs |-> IF p = "p1" THEN "cnw_slot" ELSE "idle"]
    /\ loc = [p \in Procs |-> IF p = "p1" THEN Invoked(p, "s1") ELSE Loc0]
    /\ db0 = DB
    /\ obs = [Obs0 EXCEPT !.op = "promote", !.slot = "s1", !.arg = <<>>,
                          !.running = TRUE, !.accepted = TRUE]

\* the mail for the request p is promoting failed
Bounce(p) ==
    /\ db0' = db0
    /\ obs' = [obs EXCEPT !.arg = Append(@, loc[p].req)]

MailNext ==
    \/ CnwFindSlot("p1") /\ Watch("p1")
    \/ CnwFindWaiting("p1") /\ Watch("p1")
    \/ CnwUpdateRequest("p1") /\ Watch("p1")
    \/ CnwUpdateSlot("p1") /\ Watch("p1")
    \/ CnwSendMail("p1") /\ Watch("p1")
    \/ CnwSendMailThrows("p1") /\ Bounce("p1")

MailSpec == InitMail /\ [][MailNext]_vars

\* RecountSpec: the cron callback (p1) runs on a drawn database whose counters agree
\* with its rows while p2 serves waitlist joins.  obs.arg is the set of slots whose
\* waitlistCount the callback has written.
InitRecount ==
    /\ \E n \in 0..MaxSweepReq : \E rows \in [1..n -> SweepRequestRows] :
          /\ \A i \in 1..n : rows[i].status # WAITING => rows[i].email
          /\ requests = Stamp(rows)
    /\ \E k \in 0..MaxNotices : \E ns \in [1..k -> NoticeRows] :
          /\ \A r \in 1..Len(requests) : requests[r].absence <= k
          /\ notices = ns
    /\ slots = [s \in Slots |->
                  [SlotRow(SlotBand(s), SlotStart(s), MaxAllowed)
                     EXCEPT !.used = Count(requests, s, CONFIRMED),
                            !.wl = Count(requests, s, WAITING)]]
    /\ now \in 0..MaxNow
    /\ nextToken = 0
    /\ mails = [r \in 1..Len(requests) |-> NoMail]
    /\ pc = [p \in Procs |-> IF p = "p1" THEN "sw_start" ELSE "idle"]
    /\ loc = [p \in Procs |-> IF p = "p1" THEN [Loc0 EXCEPT !.op = "sweep", !.now = now]
                                           ELSE Loc0]
    /\ db0 = DB
    /\ obs = [Obs0 EXCEPT !.op = "sweep", !.arg = {}, !.running = TRUE, !.accepted = TRUE]

\* the callback has written the waitlistCount of the slot it is at
Recounted(p) ==
    /\ db0' = db0
    /\ obs' = [obs EXCEPT !.arg = @ \cup {loc[p].slot}]

RecountNext ==
    \/ SweepQuery("p1") /\ Quiet
    \/ SweepFindSlots("p1") /\ Quiet
    \/ SweepExpire("p1") /\ Quiet
    \/ SweepFindAbsence("p1") /\ Quiet
    \/ SweepUpdateAbsence("p1") /\ Quiet
    \/ SweepMail("p1") /\ Quiet
    \/ SweepCount("p1") /\ Quiet
    \/ SweepUpdateSlot("p1") /\ Recounted("p1")
    \/ SweepFindExpiredAbsences("p1") /\ Quiet
    \/ SweepExpireAbsence("p1") /\ Quiet
    \/ \E s \in Slots, b \in Bands :
          Room(MaxSweepReq + 1) /\ WaitlistFind("p2", s, b) /\ Quiet
    \/ WaitlistCreate("p2") /\ Quiet
    \/ WaitlistUpdate("p2") /\ Quiet

RecountSpec == InitRecount /\ [][RecountNext]_vars

\* DriftSpec: requests handled one at a time from Init, where the admin may move a
\* slot to another lesson start and the clock and the cron callback run.
DriftNext ==
    \/ \E s \in Slots, b \in Bands :
          Room(MaxReq) /\ WaitlistFind("p1", s, b) /\ Begin("p1", "waitlist", s, <<b>>)
    \/ WaitlistCreate("p1") /\ Watch("p1")
    \/ WaitlistUpdate("p1") /\ Watch("p1")
    \/ \E s \in Slots, a \in Opt(0..MaxAllowed), st \in Opt(0..MaxStart) :
          UpdateSlotFind("p1", s, a, st) /\ Begin("p1", "update", s, <<a, st>>)
    \/ UpdateSlotWrite("p1") /\ Watch("p1")
    \/ CronFire("p1") /\ Begin("p1", "sweep", NoSlot, <<now>>)
    \/ SweepQuery("p1") /\ Watch("p1")
    \/ SweepFindSlots("p1") /\ Watch("p1")
    \/ SweepExpire("p1") /\ Watch("p1")
    \/ SweepMail("p1") /\ Watch("p1")
    \/ SweepCount("p1") /\ Watch("p1")
    \/ SweepUpdateSlot("p1") /\ Watch("p1")
    \/ SweepFindExpiredAbsences("p1") /\ Watch("p1")
    \/ Tick /\ pc["p1"] = "idle" /\ Quiet

DriftSpec == Init /\ [][DriftNext]_vars

\* EditSpec: admin capacity edits, one at a time, on a drawn slot with booked and
\* waiting requests; every subset of the three counters may be sent.
InitEdit ==
    /\ \E a \in 0..MaxCap, n \in 0..MaxWait :
        \E u \in 0..a :
          /\ slots = [s \in Slots |->
                        IF s = "s1"
                        THEN [SlotRow(SlotBand(s), SlotStart(s), a) EXCEPT !.used = u, !.wl = n]
                        ELSE NoSlotRow]
          /\ requests = Rows(u, BookedRow("s1"), 0) \o Rows(n, WaitingRow("s1"), u)
    /\ notices = <<>>
    /\ now = 0
    /\ nextToken = 0
    /\ mails = [r \in 1..Len(requests) |-> NoMail]
    /\ pc = [p \in Procs |-> "idle"]
    /\ loc = [p \in Procs |-> Loc0]
    /\ db0 = DB
    /\ obs = Obs0

EditNext ==
    \/ \E s \in Slots, a \in Opt(0..MaxCap), u \in Opt(0..MaxCap), c \in Opt(0..MaxAllowed) :
          CapacityFind("p1", s, a, u, c) /\ Begin("p1", "capacity", s, <<a, u, c>>)
    \/ CapacityUpdate("p1") /\ Watch("p1")
    \/ CapacityReread("p1") /\ Watch("p1")
    \/ CnwFindSlot("p1") /\ Watch("p1")
    \/ CnwFindWaiting("p1") /\ Watch("p1")
    \/ CnwUpdateRequest("p1") /\ Watch("p1")
    \/ CnwUpdateSlot("p1") /\ Watch("p1")
    \/ CnwSendMail("p1") /\ Watch("p1")

EditSpec == InitEdit /\ [][EditNext]_vars

\* ExpireSpec: one call of confirmNextWaiter by p1 on a drawn slot that starts within
\* the hour, while p2 serves manual closes and runs of the cron callback.
InitExpire ==
    /\ \E a \in 0..MaxCap, n \in 0..MaxWait :
        \E u \in 0..a :
          /\ slots = [s \in Slots |->
                        IF s = "s1"
                        THEN [SlotRow(SlotBand(s), SlotStart(s), a) EXCEPT !.used = u, !.wl = n]
                        ELSE NoSlotRow]
          /\ requests = Rows(u, BookedRow("s1"), 0) \o Rows(n, WaitingRow("s1"), u)
    /\ notices = <<>>
    /\ now = SlotStart("s1") - OneHour
    /\ nextToken = 0
    /\ mails = [r \in 1..Len(requests) |-> NoMail]
    /\ pc = [p \in Procs |-> IF p = "p1" THEN "cnw_slot" ELSE "idle"]
    /\ loc = [p \in Procs |-> IF p = "p1" THEN Invoked(p, "s1") ELSE Loc0]
    /\ db0 = DB
    /\ obs = [Obs0 EXCEPT !.op = "promote", !.slot = "s1", !.running = TRUE,
                          !.accepted = TRUE]

ExpireNext ==
    \/ CnwFindSlot("p1") /\ Watch("p1")
    \/ CnwFindWaiting("p1") /\ Watch("p1")
    \/ CnwUpdateRequest("p1") /\ Watch("p1")
    \/ CnwUpdateSlot("p1") /\ Watch("p1")
    \/ CnwSendMail("p1") /\ Watch("p1")
    \/ \E s \in Slots : CloseFind("p2", s) /\ Quiet
    \/ CloseQuery("p2") /\ Quiet
    \/ CloseExpire("p2") /\ Quiet
    \/ CloseMail("p2") /\ Quiet
    \/ CloseUpdateSlot("p2") /\ Quiet
    \/ CronFire("p2") /\ Quiet
    \/ SweepQuery("p2") /\ Quiet
    \/ SweepFindSlots("p2") /\ Quiet
    \/ SweepExpire("p2") /\ Quiet
    \/ SweepMail("p2") /\ Quiet
    \/ SweepCount("p2") /\ Quiet
    \/ SweepUpdateSlot("p2") /\ Quiet
    \/ SweepFindExpiredAbsences("p2") /\ Quiet

ExpireSpec == InitExpire /\ [][ExpireNext]_vars

\* TokenSpec: two calls of confirmNextWaiter at once on a drawn slot, where obs.arg
\* lists every confirmation mail attempted as <<request, declineToken in the mail>>.
InitToken ==
    /\ \E a \in 0..MaxCap, n \in 0..MaxWait :
        \E u \in 0..a :
          /\ slots = [s \in Slots |->
                        IF s = "s1"
                        THEN [SlotRow(SlotBand(s), SlotStart(s), a) EXCEPT !.used = u, !.wl = n]
                        ELSE NoSlotRow]
          /\ requests = Rows(u, BookedRow("s1"), 0) \o Rows(n, WaitingRow("s1"), u)
    /\ notices = <<>>
    /\ now = 0
    /\ nextToken = 0
    /\ mails = [r \in 1..Len(requests) |-> NoMail]
    /\ pc = [p \in Procs |-> "cnw_slot"]
    /\ loc = [p \in Procs |-> Invoked(p, "s1")]
    /\ db0 = DB
    /\ obs = [Obs0 EXCEPT !.op = "promote", !.slot = "s1", !.arg = <<>>,
                          !.running = TRUE, !.accepted = TRUE]

\* sendConfirmationEmail(..., declineToken): the link in the mail carries the token the
\* call generated
Sent(p) ==
    /\ db0' = db0
    /\ obs' = [obs EXCEPT !.arg = Append(@, <<loc[p].req, loc[p].tok>>)]

TokenNext ==
    \/ \E p \in Procs : CnwFindSlot(p) /\ Quiet
    \/ \E p \in Procs : CnwFindWaiting(p) /\ Quiet
    \/ \E p \in Procs : CnwUpdateRequest(p) /\ Quiet
    \/ \E p \in Procs : CnwUpdateSlot(p) /\ Quiet
    \/ \E p \in Procs : CnwSendMail(p) /\ Sent(p)

TokenSpec == InitToken /\ [][TokenNext]_vars

\* ResolveSpec: both slots exist without a free unit; p1 serves joins and capacity edits
\* one at a time, p2 runs the cron callback, and the clock advances.  The callback fires
\* every 10 minutes, more often than the clock of 30-minute units moves: obs.arg says
\* whether a run has completed since the clock last moved, and the clock waits for it.
\* Every handler and the callback take their next step eventually, the callback keeps
\* firing, and the clock advances up to MaxNow however many requests arrive.
InitResolve ==
    /\ slots = [s \in Slots |-> SlotRow(SlotBand(s), SlotStart(s), 0)]
    /\ requests = <<>>
    /\ notices = <<>>
    /\ now = 0
    /\ nextToken = 0
    /\ mails = <<>>
    /\ pc = [p \in Procs |-> "idle"]
    /\ loc = [p \in Procs |-> Loc0]
    /\ db0 = DB
    /\ obs = [Obs0 EXCEPT !.arg = FALSE]

\* a run of the callback has completed
Swept(p) ==
    /\ db0' = db0
    /\ obs' = IF pc'[p] = "idle" THEN [obs EXCEPT !.arg = TRUE] ELSE obs

\* the clock moves after a completed run, between two requests (a handler takes
\* milliseconds, a clock unit is 30 minutes)
Elapse ==
    /\ obs.arg
    /\ pc["p1"] = "idle"
    /\ Tick
    /\ db0' = db0
    /\ obs' = [obs EXCEPT !.arg = FALSE]

\* the next step of the handler p1 is inside
Serve ==
    \/ WaitlistCreate("p1") /\ Quiet
    \/ WaitlistUpdate("p1") /\ Quiet
    \/ CapacityUpdate("p1") /\ Quiet
    \/ CapacityReread("p1") /\ Quiet
    \/ CnwFindSlot("p1") /\ Quiet
    \/ CnwFindWaiting("p1") /\ Quiet
    \/ CnwUpdateRequest("p1") /\ Quiet
    \/ CnwUpdateSlot("p1") /\ Quiet
    \/ CnwSendMail("p1") /\ Quiet

\* the callback fires, or takes its next step
Sweep ==
    \/ CronFire("p2") /\ Quiet
    \/ SweepQuery("p2") /\ Swept("p2")
    \/ SweepFindSlots("p2") /\ Swept("p2")
    \/ SweepExpire("p2") /\ Swept("p2")
    \/ SweepMail("p2") /\ Swept("p2")
    \/ SweepCount("p2") /\ Swept("p2")
    \/ SweepUpdateSlot("p2") /\ Swept("p2")
    \/ SweepFindExpiredAbsences("p2") /\ Swept("p2")

ResolveNext ==
    \/ \E s \in Slots, b \in Bands : Room(MaxReq) /\ WaitlistFind("p1", s, b) /\ Quiet
    \/ WaitlistCreate("p1") /\ Quiet
    \/ WaitlistUpdate("p1") /\ Quiet
    \/ \E s \in Slots, a \in Opt(0..MaxAllowed) :
          CapacityFind("p1", s, a, <<>>, <<>>) /\ Quiet
    \/ CapacityUpdate("p1") /\ Quiet
    \/ CapacityReread("p1") /\ Quiet
    \/ CnwFindSlot("p1") /\ Quiet
    \/ CnwFindWaiting("p1") /\ Quiet
    \/ CnwUpdateRequest("p1") /\ Quiet
    \/ CnwUpdateSlot("p1") /\ Quiet
    \/ CnwSendMail("p1") /\ Quiet
    \/ CronFire("p2") /\ Quiet
    \/ SweepQuery("p2") /\ Swept("p2")
    \/ SweepFindSlots("p2") /\ Swept("p2")
    \/ SweepExpire("p2") /\ Swept("p2")
    \/ SweepMail("p2") /\ Swept("p2")
    \/ SweepCount("p2") /\ Swept("p2")
    \/ SweepUpdateSlot("p2") /\ Swept("p2")
    \/ SweepFindExpiredAbsences("p2") /\ Swept("p2")
    \/ Elapse

ResolveSpec ==
    /\ InitResolve
    /\ [][ResolveNext]_vars
    /\ WF_vars(Serve)
    /\ WF_vars(Sweep)
    /\ SF_vars(Elapse)

\* The manual close and the sweep from one starting state: a store as InitSweep draws
\* it, the admin closes the waitlist of one slot, and then the cron callback runs from
\* the state the close started from; obs.arg keeps the state the close left.
InitEquiv ==
    /\ \E n \in 0..MaxSweepReq : \E rows \in [1..n -> SweepRequestRows] :
          /\ \A i \in 1..n : rows[i].status # WAITING => rows[i].email
          /\ requests = Stamp(rows)
    /\ \E k \in 0..MaxNotices : \E ns \in [1..k -> NoticeRows] :
          /\ \A r \in 1..Len(requests) : requests[r].absence <= k
          /\ notices = ns
    /\ slots = [s \in Slots |->
                  [SlotRow(SlotBand(s), SlotStart(s), MaxAllowed)
                     EXCEPT !.used = Count(requests, s, CONFIRMED),
                            !.wl = Count(requests, s, WAITING)]]
    /\ now \in 0..MaxNow
    /\ nextToken = 0
    /\ mails = [r \in 1..Len(requests) |-> NoMail]
    /\ pc = [p \in Procs |-> "idle"]
    /\ loc = [p \in Procs |-> Loc0]
    /\ db0 = DB
    /\ obs = Obs0

\* the cron callback fires on the state the completed close started from
Replay ==
    /\ obs.op = "close" /\ obs.accepted /\ ~obs.running
    /\ slots' = db0.slots
    /\ requests' = db0.requests
    /\ notices' = db0.notices
    /\ mails' = [r \in 1..Len(db0.requests) |-> NoMail]
    /\ pc' = [pc EXCEPT !["p2"] = "sw_start"]
    /\ loc' = [loc EXCEPT !["p2"] = [Loc0 EXCEPT !.op = "sweep", !.now = now]]
    /\ obs' = [obs EXCEPT !.op = "sweep", !.arg = <<DB>>, !.running = TRUE]
    /\ UNCHANGED <<now, nextToken, db0>>

EquivNext ==
    \/ \E s \in Slots :
          obs.op = "none" /\ CloseFind("p1", s) /\ Begin("p1", "close", s, <<now>>)
    \/ CloseQuery("p1") /\ Watch("p1")
    \/ CloseExpire("p1") /\ Watch("p1")
    \/ CloseMail("p1") /\ Watch("p1")
    \/ CloseUpdateSlot("p1") /\ Watch("p1")
    \/ Replay
    \/ SweepQuery("p2") /\ Watch("p2")
    \/ SweepFindSlots("p2") /\ Watch("p2")
    \/ SweepExpire("p2") /\ Watch("p2")
    \/ SweepFindAbsence("p2") /\ Watch("p2")
    \/ SweepUpdateAbsence("p2") /\ Watch("p2")
    \/ SweepMail("p2") /\ Watch("p2")
    \/ SweepCount("p2") /\ Watch("p2")
    \/ SweepUpdateSlot("p2") /\ Watch("p2")
    \/ SweepFindExpiredAbsences("p2") /\ Watch("p2")
    \/ SweepExpireAbsence("p2") /\ Watch("p2")

EquivSpec == InitEquiv /\ [][EquivNext]_vars

\* ============================================================== claims
Min(a, b) == IF a < b THEN a ELSE b

Max(a, b) == IF a < b THEN b ELSE a

\* the waiting requests of slot s in database db
WaitingIn(db, s) ==
    {r \in 1..Len(db.requests) : db.requests[r].slot = s /\ db.requests[r].status = WAITING}

\* request ids of database db in ascending createdAt order
RECURSIVE ByCreatedAt(_, _)
ByCreatedAt(db, S) ==
    IF S = {} THEN <<>>
    ELSE LET m == CHOOSE x \in S : \A y \in S : db.requests[x].createdAt <= db.requests[y].createdAt
         IN <<m>> \o ByCreatedAt(db, S \ {m})

AllIdle == \A p \in Procs : pc[p] = "idle"

\* C1. FIFO promotion: one call of confirmNextWaiter, alone, on a slot with N waiting
\* requests and k free units confirms exactly the min(k, N) oldest waiting requests,
\* oldest first, and leaves every other request as it was.
C1_FifoPromotion ==
    \A p \in Procs :
        (obs.op = "promote" /\ obs.arg = <<{p}>> /\ pc[p] = "idle") =>
            LET s == obs.slot
                w0 == ByCreatedAt(db0, WaitingIn(db0, s))
                k == Min(Max(Remaining(db0.slots[s]), 0), Len(w0))
            IN /\ obs.promoted = SubSeq(w0, 1, k)
               /\ \A i \in 1..Len(w0) :
                     requests[w0[i]].status = IF i <= k THEN CONFIRMED ELSE WAITING
               /\ \A r \in ReqIds :
                     requests[r].slot # s \/ db0.requests[r].status # WAITING
                        => requests[r] = db0.requests[r]

\* two units were free and three requests waited: the two oldest are confirmed
C1_Witness ==
    /\ obs.op = "promote" /\ obs.arg = <<{"p1"}>> /\ pc["p1"] = "idle"
    /\ Len(obs.promoted) = 2
    /\ Cardinality(WaitingIn(db0, "s1")) = 3
    /\ Cardinality(WaitingOf("s1")) = 1

\* C2. Capacity conservation (used side): capacityMakeupUsed equals the number of
\* CONFIRMED requests of the slot at every point, between the store writes of one
\* operation too (under Spec only book, decline and promotion write the counter).
C2_UsedEqualsConfirmed ==
    \A s \in Slots : slots[s].exists => slots[s].used = Cardinality(ConfirmedOf(s))

\* C3. Waitlist counter sync: waitlistCount equals the number of WAITING requests of
\* the slot in every reachable state.
C3_WaitlistCountSync ==
    \A s \in Slots : slots[s].exists => slots[s].wl = Cardinality(WaitingOf(s))

\* C4. No double promotion: two concurrent calls for a slot with one free unit and two
\* waiting requests end with the older request CONFIRMED and the other WAITING.
C4_NoDoublePromotion ==
    LET s == obs.slot
        w0 == ByCreatedAt(db0, WaitingIn(db0, s))
    IN (/\ obs.op = "promote" /\ obs.arg = <<Procs>> /\ AllIdle
        /\ Remaining(db0.slots[s]) = 1
        /\ Len(w0) = 2)
       => /\ requests[w0[1]].status = CONFIRMED
          /\ requests[w0[2]].status = WAITING

\* the requests a promotion scenario moved from WAITING to CONFIRMED
Promoted(s) == {r \in WaitingIn(db0, s) : requests[r].status = CONFIRMED}

\* C5. Two concurrent calls for the same slot adjust the counters by exactly the number
\* of requests promoted, and capacityMakeupUsed stays within capacityMakeupAllowed.
C5_ConcurrentCountersExact ==
    LET s == obs.slot
    IN (obs.op = "promote" /\ obs.arg = <<Procs>> /\ AllIdle)
       => /\ slots[s].used - db0.slots[s].used = Cardinality(Promoted(s))
          /\ db0.slots[s].wl - slots[s].wl = Cardinality(Promoted(s))
          /\ slots[s].used <= slots[s].allowed

\* a store write makes request b CONFIRMED while an older request a of the same slot
\* is WAITING
Overtakes(a, b) ==
    /\ requests[a].slot = requests[b].slot
    /\ requests[a].createdAt < requests[b].createdAt
    /\ requests[b].status # CONFIRMED
    /\ requests'[b].status = CONFIRMED
    /\ requests'[a].status = WAITING

\* C6. FIFO under concurrency: under every interleaving no request becomes CONFIRMED
\* while an older request of the same slot is still WAITING.
C6_FifoUnderConcurrency == [][\A a, b \in ReqIds : ~Overtakes(a, b)]_vars

\* two promotions in flight at once have confirmed the two waiters of s1
C6_Witness ==
    /\ \A p \in Procs : pc[p] \in {"cnw_slot", "cnw_query", "cnw_req", "cnw_slotupd", "cnw_mail"}
    /\ Len(requests) = 2
    /\ \A r \in ReqIds : requests[r].status = CONFIRMED /\ requests[r].token # 0

\* the status changes of the request state machine
Transition(from, to) ==
    \/ from = to
    \/ from = WAITING /\ to \in {CONFIRMED, EXPIRED}
    \/ from = CONFIRMED /\ to = DECLINED

\* C7. Request status is a finite state machine: WAITING -> CONFIRMED, CONFIRMED ->
\* DECLINED and WAITING -> EXPIRED are the only changes, under every interleaving.
C7_StatusMachine ==
    [][\A r \in ReqIds : Transition(requests[r].status, requests'[r].status)]_vars

\* findFirst({where: {declineToken}}) on database db; 0 when there is none
TokenIn(db, tok) ==
    IF \E r \in 1..Len(db.requests) : db.requests[r].token = tok
    THEN CHOOSE r \in 1..Len(db.requests) : db.requests[r].token = tok
    ELSE 0

\* the decline of a CONFIRMED request of a full slot with a waiter has completed
DeclinedOnFullSlot ==
    /\ obs.op = "decline" /\ obs.accepted /\ ~obs.running
    /\ LET s == db0.requests[TokenIn(db0, obs.arg[1])].slot
       IN /\ db0.slots[s].used = db0.slots[s].allowed
          /\ WaitingIn(db0, s) # {}

SweepView(db) ==
    [status |-> [r \in 1..Len(db.requests) |-> db.requests[r].status],
     wl |-> [s \in Slots |-> db.slots[s].wl],
     notice |-> [a \in 1..Len(db.notices) |-> db.notices[a].status]]

\* C9. Idempotent sweep: a second sweep run right after the first, with the same clock
\* reading, leaves request statuses, waitlist counters and notice statuses as the first
\* run left them, at its end and at every step before.
C9_IdempotentSweep == pc["p1"] = "idle" => SweepView(DB) = SweepView(db0)

\* both runs have ended and the first one expired a request and changed a notice
C9_Witness ==
    /\ AllIdle
    /\ \E r \in ReqIds : obs.arg[1].requests[r].status = WAITING /\ requests[r].status = EXPIRED
    /\ \E a \in 1..Len(notices) : obs.arg[1].notices[a].status # notices[a].status

\* C10. Capacity bound: 0 <= capacityMakeupUsed <= capacityMakeupAllowed for every slot
\* in every reachable state.
C10_CapacityBound ==
    \A s \in Slots :
        slots[s].exists => 0 <= slots[s].used /\ slots[s].used <= slots[s].allowed

\* every handler instance of a race serves the request req
BothServe(req) == obs.op = "race" /\ \A p \in Procs : obs.arg[p] = req

\* C11. Concurrent bookings do not race: when two Book operations run concurrently
\* against a slot with exactly one remaining unit, at every point at most one of them
\* has created a CONFIRMED request and capacityMakeupUsed is within
\* capacityMakeupAllowed.
C11_ConcurrentBookings ==
    (BothServe(<<"book", "s1", SlotBand("s1")>>) /\ Remaining(db0.slots["s1"]) = 1)
    => /\ Len(requests) - Len(db0.requests) <= 1
       /\ slots["s1"].used <= slots["s1"].allowed

\* the slot whose unit the observed decline gives back (NoSlot: no decline observed)
DeclinedSlot ==
    IF obs.op = "decline" /\ obs.accepted
    THEN db0.requests[TokenIn(db0, obs.arg[1])].slot
    ELSE NoSlot

\* C12. Promotion is atomic with respect to failure: when a promotion is interrupted
\* by a rejected store call, every slot's counters account for exactly the requests
\* the promotion has made CONFIRMED (capacityMakeupUsed raised and waitlistCount
\* lowered by their number): the state is entirely before or entirely after each
\* promotion.
C12_PromotionAtomic ==
    obs.failed \in {"cnw_slot", "cnw_query", "cnw_req", "cnw_slotupd"} =>
        \A s \in Slots :
            LET given == IF s = DeclinedSlot THEN 1 ELSE 0
            IN /\ slots[s].used = db0.slots[s].used - given + Cardinality(Promoted(s))
               /\ slots[s].wl = db0.slots[s].wl - Cardinality(Promoted(s))

\* C13. All-or-nothing for Book, Join waitlist and Decline: when one of the store
\* writes of such an operation is rejected, the store is as it was before the
\* operation began.
C13_AllOrNothing ==
    obs.failed \in {"book_create", "book_update", "wl_create", "wl_update",
                    "dec_update", "dec_slot"}
    => DB = db0

\* the admin edit setting capacityMakeupAllowed of s1 to 3 has completed, and it began
\* on a full slot (2 of 2 used) with the single waiting request r
RaisedFullSlot(r) ==
    /\ obs.op = "capacity" /\ obs.slot = "s1" /\ obs.arg = <<<<3>>, <<>>>> /\ ~obs.running
    /\ db0.slots["s1"].allowed = 2
    /\ db0.slots["s1"].used = 2
    /\ db0.slots["s1"].wl = 1
    /\ WaitingIn(db0, "s1") = {r}

\* C14. Full slot, then the admin raises the allowance: for a slot with
\* capacityMakeupAllowed = 2 and capacityMakeupUsed = 2 and parent A on the waitlist
\* (waitlistCount = 1), when the edit setting capacityMakeupAllowed = 3 completes,
\* capacityMakeupUsed = 3, A's request is CONFIRMED, waitlistCount = 0 and one
\* confirmation notification has been attempted for A.
C14_RaiseAllowancePromotes ==
    \A r \in ReqIds :
        RaisedFullSlot(r) =>
            /\ slots["s1"].allowed = 3
            /\ slots["s1"].used = 3
            /\ requests[r].status = CONFIRMED
            /\ slots["s1"].wl = 0
            /\ mails[r].conf = 1
            /\ obs.promoted = <<r>>

C14_Witness ==
    \E r \in ReqIds : RaisedFullSlot(r) /\ requests[r].status = CONFIRMED /\ mails[r].conf = 1

\* the rows database db held are unchanged
KeepsRows(db) ==
    /\ Len(requests) >= Len(db.requests)
    /\ \A r \in 1..Len(db.requests) : requests[r] = db.requests[r]

\* a Book request for slot s with a matching class band and a free unit has completed
BookedOpenSlot(s) ==
    /\ obs.op = "book" /\ obs.slot = s /\ ~obs.running
    /\ db0.slots[s].exists
    /\ db0.slots[s].band = obs.arg[1]
    /\ Remaining(db0.slots[s]) >= 1

\* C15. Immediate booking on an open slot: a Book request whose class band matches the
\* slot and whose slot has a free unit creates exactly one new request, CONFIRMED and
\* for that slot, raises capacityMakeupUsed by exactly 1 and leaves waitlistCount,
\* capacityMakeupAllowed, the other slots and every existing request unchanged.
C15_ImmediateBooking ==
    \A s \in Slots :
        BookedOpenSlot(s) =>
            /\ obs.accepted
            /\ Len(requests) = Len(db0.requests) + 1
            /\ KeepsRows(db0)
            /\ requests[Len(requests)].status = CONFIRMED
            /\ requests[Len(requests)].slot = s
            /\ slots[s] = [db0.slots[s] EXCEPT !.used = @ + 1]
            /\ \A q \in Slots \ {s} : slots[q] = db0.slots[q]

\* the booking of the example: 1 of 3 used becomes 2 of 3
C15_Witness ==
    /\ BookedOpenSlot("s1")
    /\ db0.slots["s1"].allowed = 3 /\ db0.slots["s1"].used = 1
    /\ slots["s1"].used = 2
    /\ requests[Len(requests)].status = CONFIRMED

\* the database the sweep scenario began with
Before == obs.arg[1]

\* the first sweep run has ended, and it began with slot s starting within the hour and
\* exactly the two requests a and b, both with a contact email, waiting for it
SweptTwoWaiters(s, a, b) ==
    /\ obs.op = "sweep" /\ pc["p1"] = "idle"
    /\ a # b
    /\ Before.slots[s].exists
    /\ now <= Before.slots[s].start /\ Before.slots[s].start <= now + OneHour
    /\ WaitingIn(Before, s) = {a, b}
    /\ Before.requests[a].email /\ Before.requests[b].email

\* C16. Expiry scenario: for a slot whose lesson starts within one hour of now, with two
\* WAITING requests that have contact emails, after one sweep run both requests are
\* EXPIRED, waitlistCount is 0, capacityMakeupUsed and capacityMakeupAllowed are
\* unchanged, and exactly two `could not accommodate` notifications, one per request,
\* have been attempted.
C16_ExpiryScenario ==
    \A s \in Slots : \A a, b \in ReqIds :
        SweptTwoWaiters(s, a, b) =>
            /\ requests[a].status = EXPIRED
            /\ requests[b].status = EXPIRED
            /\ slots[s] = [Before.slots[s] EXCEPT !.wl = 0]
            /\ mails[a] = [conf |-> 0, exp |-> 1]
            /\ mails[b] = [conf |-> 0, exp |-> 1]
            /\ \A r \in ReqIds \ {a, b} : mails[r].exp = 0

C16_Witness ==
    \E s \in Slots : \E a, b \in ReqIds :
        /\ SweptTwoWaiters(s, a, b)
        /\ pc["p2"] = "sw_start"
        /\ requests[a].status = EXPIRED /\ requests[b].status = EXPIRED
        /\ mails[a].exp + mails[b].exp = 2

\* a Book request for slot s that names an unknown slot, another class band than the
\* slot's, or a slot without a free unit
BookToRefuse(s) ==
    /\ obs.op = "book" /\ obs.slot = s
    /\ \/ ~db0.slots[s].exists
       \/ db0.slots[s].band # obs.arg[1]
       \/ Remaining(db0.slots[s]) < 1

\* C17. Book rejection leaves state unchanged: a Book request for an unknown slot, for
\* a slot of another class band than the declared one, or for a slot with remaining
\* capacity < 1 is rejected at once; no Request row is created and no slot row changes.
C17_BookRejection ==
    \A s \in Slots :
        BookToRefuse(s) =>
            /\ ~obs.accepted /\ ~obs.running
            /\ pc["p1"] = "idle"
            /\ DB = db0

\* a full slot of the declared class band refused a booking
C17_Witness ==
    /\ BookToRefuse("s1")
    /\ db0.slots["s1"].band = obs.arg[1]
    /\ db0.slots["s1"].allowed >= 1
    /\ ~obs.accepted
    /\ DB = db0

\* a decline without a token, with a token no request holds, or with the token of a
\* request that is not CONFIRMED
DeclineToRefuse ==
    /\ obs.op = "decline"
    /\ \/ obs.arg[1] = 0
       \/ TokenIn(db0, obs.arg[1]) = 0
       \/ db0.requests[TokenIn(db0, obs.arg[1])].status # CONFIRMED

\* C18. Decline rejection leaves state unchanged: a decline whose token matches no
\* request, or whose request has a status other than CONFIRMED, is refused at once; no
\* request or slot row changes and no promotion runs.
C18_DeclineRejection ==
    DeclineToRefuse =>
        /\ ~obs.accepted /\ ~obs.running
        /\ pc["p1"] = "idle"
        /\ obs.promoted = <<>>
        /\ DB = db0

\* the decline link of an already declined request was followed again
C18_Witness ==
    /\ DeclineToRefuse
    /\ obs.arg[1] # 0
    /\ TokenIn(db0, obs.arg[1]) # 0
    /\ db0.requests[TokenIn(db0, obs.arg[1])].status = DECLINED
    /\ ~obs.accepted
    /\ DB = db0

\* both handler instances of a race served the decline link of the CONFIRMED request r
\* and have ended
DeclinedTwice(r) ==
    /\ db0.requests[r].status = CONFIRMED
    /\ db0.requests[r].token # 0
    /\ BothServe(<<"decline", db0.requests[r].token>>)
    /\ AllIdle

\* C19. Decline takes effect at most once per request: when the decline link of one
\* CONFIRMED request is invoked twice concurrently, at most one waiter is promoted as a
\* result, and capacityMakeupUsed is lowered by exactly 1 in total (seen where nobody
\* waits, so that no promotion raises it again).
C19_DeclineOnce ==
    \A r \in 1..Len(db0.requests) :
        DeclinedTwice(r) =>
            LET s == db0.requests[r].slot
            IN /\ Cardinality(Promoted(s)) <= 1
               /\ WaitingIn(db0, s) = {} => slots[s].used = db0.slots[s].used - 1

\* a join for the existing slot s with a matching class band has completed
JoinedSlot(s) ==
    /\ obs.op = "waitlist" /\ obs.slot = s /\ ~obs.running
    /\ db0.slots[s].exists
    /\ db0.slots[s].band = obs.arg[1]

\* C20. Join waitlist: a valid join (existing slot, matching class band) creates exactly
\* one new request, WAITING and for that slot, raises the slot's waitlistCount by
\* exactly 1 and leaves capacityMakeupUsed, capacityMakeupAllowed, the other slots and
\* every other request unchanged.
C20_JoinWaitlist ==
    \A s \in Slots :
        JoinedSlot(s) =>
            /\ obs.accepted
            /\ Len(requests) = Len(db0.requests) + 1
            /\ KeepsRows(db0)
            /\ requests[Len(requests)].status = WAITING
            /\ requests[Len(requests)].slot = s
            /\ slots[s] = [db0.slots[s] EXCEPT !.wl = @ + 1]
            /\ \A q \in Slots \ {s} : slots[q] = db0.slots[q]

\* a join behind an earlier waiter on a full slot
C20_Witness ==
    /\ JoinedSlot("s1")
    /\ Remaining(db0.slots["s1"]) = 0
    /\ db0.slots["s1"].wl = 1
    /\ slots["s1"].wl = 2
    /\ requests[Len(requests)].status = WAITING

\* a manual close of the existing slot s was requested at clock reading obs.arg[1]
CloseAsked(s) == obs.op = "close" /\ obs.slot = s /\ db0.slots[s].exists

\* the lesson of slot s started more than one hour after the close was requested
BeforeCutoff(s) == db0.slots[s].start - obs.arg[1] > OneHour

\* C21. Manual waitlist close is gated by the cutoff: a close for a slot whose lesson
\* starts more than one hour after the current time is rejected and changes no request
\* and no slot row; a close at or after lessonStart - 1 hour is carried out and leaves
\* every request that waited for the slot EXPIRED.
C21_CloseGate ==
    \A s \in Slots :
        CloseAsked(s) =>
            IF BeforeCutoff(s)
            THEN ~obs.accepted /\ ~obs.running /\ DB = db0
            ELSE /\ obs.accepted
                 /\ ~obs.running =>
                       \A r \in WaitingIn(db0, s) : requests[r].status = EXPIRED

\* a close refused before the cutoff left a waiter waiting
C21_Witness ==
    \E s \in Slots :
        /\ CloseAsked(s) /\ BeforeCutoff(s)
        /\ WaitingIn(db0, s) # {}
        /\ ~obs.accepted
        /\ WaitingOf(s) = WaitingIn(db0, s)

\* the sweep has ended after a manual close of slot s, both started from db0 with the
\* slot inside the one-hour window
ClosedThenSwept(s) ==
    /\ obs.op = "sweep" /\ obs.slot = s /\ ~obs.running
    /\ InWindow(now, db0.slots[s].start)

\* the state the manual close left
Closed == obs.arg[1]

\* C22. Manual close is equivalent to the sweep for one slot: from the same starting
\* state with the slot inside the one-hour window, a permitted manual close and a sweep
\* run leave the same rows for that slot's requests, the same waitlistCount and the same
\* Absence Notices referenced by the expired requests.
C22_CloseEqualsSweep ==
    \A s \in Slots :
        ClosedThenSwept(s) =>
            /\ \A r \in 1..Len(db0.requests) :
                  db0.requests[r].slot = s => requests[r] = Closed.requests[r]
            /\ slots[s].wl = Closed.slots[s].wl
            /\ \A r \in WaitingIn(db0, s) :
                  db0.requests[r].absence # 0 =>
                      notices[db0.requests[r].absence]
                          = Closed.notices[db0.requests[r].absence]

\* the search for class band obs.arg[1] has answered with obs.arg[2]
Searched == obs.op = "search"

\* a Book for the existing slot s with a matching class band was requested
BookAsked(s) ==
    /\ obs.op = "book" /\ obs.slot = s
    /\ db0.slots[s].exists
    /\ db0.slots[s].band = obs.arg[1]

\* C23. Slot status classification: for every slot the search reports, with
\* remaining = capacityMakeupAllowed - capacityMakeupUsed, the code is open (〇) iff
\* remaining >= 2, last-slot (△) iff remaining = 1 and full (×) iff remaining <= 0,
\* negative values included; and Book is accepted exactly for the slots classified open
\* or last-slot.
C23_Classification ==
    /\ Searched =>
          \A s \in DOMAIN obs.arg[2] :
              LET remaining == db0.slots[s].allowed - db0.slots[s].used
                  code == obs.arg[2][s].statusCode
              IN /\ code = "open" <=> remaining >= 2
                 /\ code = "last" <=> remaining = 1
                 /\ code = "full" <=> remaining <= 0
    /\ \A s \in Slots :
          BookAsked(s) => (obs.accepted <=> StatusCode(db0.slots[s]) \in {"open", "last"})

\* a search reported a slot with negative remaining capacity
C23_Witness ==
    /\ Searched
    /\ \E s \in DOMAIN obs.arg[2] :
          /\ obs.arg[2][s].remainingSlots < 0
          /\ obs.arg[2][s].statusCode = "full"

\* C24. A slot is deleted only when no request references it: in every reachable state
\* every request's target slot exists, also when a slot deletion interleaves with a
\* concurrent Book or Join on the same slot.
C24_NoOrphanRequest == \A r \in ReqIds : slots[requests[r].slot].exists

\* an admin capacity edit of the existing slot s has completed, and it changed the
\* remaining capacity from <= 0 to >= 1
EditFreedSlot(s) ==
    /\ obs.op = "capacity" /\ obs.slot = s /\ ~obs.running
    /\ db0.slots[s].exists
    /\ Remaining(db0.slots[s]) <= 0
    /\ Remaining(ApplyCapacity(db0.slots[s], obs.arg[1], obs.arg[2], <<>>)) >= 1

\* C25. Capacity edit self-heals the waitlist: when an admin capacity edit changes a
\* slot's remaining capacity from <= 0 to >= 1, the promotion runs inline, so when the
\* edit completes with nothing interleaved either the slot has no WAITING request left
\* or its remaining capacity is < 1.
C25_EditSelfHeals ==
    \A s \in Slots :
        EditFreedSlot(s) => WaitingOf(s) = {} \/ Remaining(slots[s]) < 1

\* an edit freed two units of a slot with more than two waiters: two were promoted in
\* turn and the slot is full again with a request still waiting
C25_Witness ==
    \E s \in Slots :
        /\ EditFreedSlot(s)
        /\ Len(obs.promoted) = 2
        /\ WaitingOf(s) # {}
        /\ Remaining(slots[s]) = 0

\* C26. No stranded waiter: in every quiescent state (no operation in flight) reachable
\* by joins, bookings, declines, admin capacity edits (update-slot-capacity or
\* update-slot) and promotions, no slot has remaining capacity >= 1 together with at
\* least one WAITING request.
C26_NoStrandedWaiter ==
    AllIdle =>
        \A s \in Slots :
            slots[s].exists => ~(Remaining(slots[s]) >= 1 /\ WaitingOf(s) # {})

\* the requests p1's call of confirmNextWaiter has promoted so far
PromotedByCall == IF pc["p1"] = "idle" THEN obs.promoted ELSE loc["p1"].promoted

\* min(remaining at start, number of WAITING requests at start)
PromotionBound ==
    Min(Max(Remaining(db0.slots["s1"]), 0), Cardinality(WaitingIn(db0, "s1")))

\* C27. Promotion loop terminates and is bounded: one call of confirmNextWaiter, as long
\* as no other operation has begun, has performed at most min(remaining at start,
\* number of WAITING requests at start) promotions; and with finitely many concurrent
\* joins and capacity edits every handler instance that is running, the call included,
\* eventually returns.
C27_PromotionTerminates ==
    /\ [](obs.arg = 0 => Len(PromotedByCall) <= PromotionBound)
    /\ \A p \in Procs : (pc[p] # "idle") ~> (pc[p] = "idle")

\* the call has returned after promoting a request that joined while it ran
C27_Witness ==
    /\ pc["p1"] = "idle"
    /\ obs.arg > 0
    /\ Len(obs.promoted) > Cardinality(WaitingIn(db0, "s1"))

\* the requests whose confirmation mail failed during the call
Bounced == {obs.arg[i] : i \in 1..Len(obs.arg)}

\* C28. Notification failure is isolated in promotion: a promoted request whose
\* confirmation mail failed stays CONFIRMED with its decline token; the failure does
\* not end the call, which returns only after promoting, oldest first, as many waiters
\* as the slot had free units, with capacityMakeupUsed and waitlistCount adjusted for
\* every one of them.
C28_MailFailureIsolated ==
    /\ \A r \in Bounced : requests[r].status = CONFIRMED /\ requests[r].token # 0
    /\ pc["p1"] = "idle" =>
          LET w0 == ByCreatedAt(db0, WaitingIn(db0, "s1"))
              k == Min(Max(Remaining(db0.slots["s1"]), 0), Len(w0))
          IN /\ obs.promoted = SubSeq(w0, 1, k)
             /\ slots["s1"].used = db0.slots["s1"].used + k
             /\ slots["s1"].wl = db0.slots["s1"].wl - k

\* the mail of the first promoted request failed and the call went on to promote a
\* second one
C28_Witness ==
    /\ pc["p1"] = "idle"
    /\ Len(obs.promoted) = 2
    /\ obs.arg # <<>>
    /\ obs.arg[1] = obs.promoted[1]

\* C29. Exactly-once confirmation notification: under every interleaving of concurrent
\* calls of confirmNextWaiter, a request with a contact email never has two confirmation
\* mails attempted, and once the calls have returned every request they moved from
\* WAITING to CONFIRMED has had exactly one.
C29_ConfirmationMailOnce ==
    /\ \A r \in ReqIds : requests[r].email => mails[r].conf <= 1
    /\ AllIdle =>
          \A r \in Promoted(obs.slot) : requests[r].email => mails[r].conf = 1

\* C30. Sweep recomputes the waitlist counter exactly: once the sweep has processed a
\* slot and nothing is in flight, the slot's waitlistCount equals the number of that
\* slot's requests still WAITING, also when a waitlist join interleaved between the
\* sweep's selection and its counter write (the join is counted exactly once).
C30_SweepRecountExact ==
    AllIdle =>
        \A s \in obs.arg : slots[s].wl = Cardinality(WaitingOf(s))

\* C31. Sweep coverage: after a sweep run taken at time now has completed, no request is
\* WAITING whose target slot's lesson start is at or before now + 1 hour, slots that
\* started before now included.
C31_SweepCoverage ==
    (obs.op = "sweep" /\ pc["p1"] = "idle") =>
        \A r \in ReqIds :
            requests[r].status = WAITING
                => slots[requests[r].slot].start > now + OneHour

\* C32. Sweep defensive re-check: the sweep never expires a request whose target slot's
\* actual lesson start is more than one hour after the clock reading of the run; a slot
\* whose lessonStartDateTime (as opposed to the copy on the request) is outside the
\* window keeps its requests WAITING.
C32_SweepRecheck ==
    [][\A r \in ReqIds :
          (requests[r].status = WAITING /\ requests'[r].status = EXPIRED)
              => slots[requests[r].slot].start <= loc["p1"].now + OneHour]_vars

\* the first sweep run has gone through every slot group and its stale absence step has
\* not begun
GroupsSwept == obs.op = "sweep" /\ pc["p1"] = "sw_absq"

\* notice n was referenced by a request the run expired
ReferencedByExpired(n) ==
    \E r \in ReqIds :
        /\ Before.requests[r].status = WAITING
        /\ requests[r].status = EXPIRED
        /\ requests[r].absence = n

\* C33. Absence Notice on waitlist expiry: when the sweep expires a request that
\* references an Absence Notice, the notice becomes EXPIRED if and only if
\* now > makeupDeadline and otherwise ABSENT_LOGGED; a notice that no expired request
\* references is not touched by this step.
C33_NoticeOnExpiry ==
    GroupsSwept =>
        \A n \in 1..Len(notices) :
            IF ReferencedByExpired(n)
            THEN /\ notices[n].status = "EXPIRED" <=> now > notices[n].deadline
                 /\ notices[n].status = "ABSENT_LOGGED" <=> ~(now > notices[n].deadline)
            ELSE notices[n] = Before.notices[n]

\* the run expired a request whose notice, not yet past its deadline, went back from
\* WAITING to ABSENT_LOGGED
C33_Witness ==
    /\ GroupsSwept
    /\ \E n \in 1..Len(notices) :
          /\ ReferencedByExpired(n)
          /\ Before.notices[n].status = "WAITING"
          /\ notices[n].deadline = now
          /\ notices[n].status = "ABSENT_LOGGED"

\* a step of the stale absence loop of a sweep run
StaleAbsenceStep == \E p \in Procs : pc[p] = "sw_absexp"

\* C34. Stale absence sweep: after a sweep run taken at time now has completed, every
\* Absence Notice with makeupDeadline < now whose status was ABSENT_LOGGED, WAITING or
\* CANCELLED is EXPIRED with its makeup slot reference cleared; and the stale absence
\* step writes no other notice: one with status MAKEUP_CONFIRMED or with
\* makeupDeadline >= now is left as it was.
C34_StaleAbsences ==
    /\ []((obs.op = "sweep" /\ pc["p1"] = "idle") =>
            \A n \in 1..Len(notices) :
                (/\ notices[n].deadline < now
                 /\ Before.notices[n].status \in {"ABSENT_LOGGED", "WAITING", "CANCELLED"})
                    => notices[n].status = "EXPIRED" /\ notices[n].makeupSlot = NoSlot)
    /\ [][StaleAbsenceStep =>
            \A n \in 1..Len(notices) :
                IF /\ notices[n].deadline < now
                   /\ notices[n].status \in {"ABSENT_LOGGED", "WAITING", "CANCELLED"}
                THEN notices'[n] \in {notices[n],
                                      [notices[n] EXCEPT !.status = "EXPIRED",
                                                         !.makeupSlot = NoSlot]}
                ELSE notices'[n] = notices[n]]_vars

\* the run expired a CANCELLED notice past its deadline and cleared its makeup slot
C34_Witness ==
    /\ obs.op = "sweep" /\ pc["p1"] = "idle"
    /\ \E n \in 1..Len(notices) :
          /\ Before.notices[n].status = "CANCELLED"
          /\ Before.notices[n].makeupSlot # NoSlot
          /\ notices[n].deadline < now
          /\ notices[n].status = "EXPIRED"
          /\ notices[n].makeupSlot = NoSlot

\* C35. Promotion updates the Absence Notice: whenever the promotion has confirmed a
\* request that references an Absence Notice, once the call has returned that notice's
\* status is MAKEUP_CONFIRMED and its makeup slot reference is the request's target slot.
C35_PromotionUpdatesNotice ==
    pc["p1"] = "idle" =>
        \A r \in Promoted("s1") :
            requests[r].absence # 0 =>
                /\ notices[requests[r].absence].status = "MAKEUP_CONFIRMED"
                /\ notices[requests[r].absence].makeupSlot = requests[r].slot

\* an admin capacity edit of the existing slot s has completed
EditDone(s) ==
    /\ obs.op = "capacity" /\ obs.slot = s /\ ~obs.running
    /\ db0.slots[s].exists

\* the value the body gives for a counter, or the stored one when it is omitted
Given(opt, stored) == IF opt = <<>> THEN stored ELSE opt[1]

\* C36. Partial capacity update: an admin capacity edit changes exactly the counters it
\* provides (capacityCurrent, capacityMakeupAllowed, capacityMakeupUsed) to the given
\* values and leaves every omitted counter, the slot's waitlistCount and all request
\* statuses unchanged, apart from the changes of the promotion the edit itself triggers
\* (one unit of capacityMakeupUsed and of waitlistCount per promoted request).
C36_PartialCapacityUpdate ==
    \A s \in Slots :
        EditDone(s) =>
            LET row == db0.slots[s]
                k == Len(obs.promoted)
                done == {obs.promoted[i] : i \in 1..k}
            IN /\ slots[s].allowed = Given(obs.arg[1], row.allowed)
               /\ slots[s].used = Given(obs.arg[2], row.used) + k
               /\ slots[s].current = Given(obs.arg[3], row.current)
               /\ slots[s].wl = row.wl - k
               /\ slots[s].band = row.band /\ slots[s].start = row.start
               /\ \A x \in Slots \ {s} : slots[x] = db0.slots[x]
               /\ Len(requests) = Len(db0.requests)
               /\ \A r \in ReqIds \ done : requests[r] = db0.requests[r]
               /\ \A r \in done :
                     db0.requests[r].status = WAITING /\ requests[r].status = CONFIRMED
               /\ k > 0 =>
                     /\ Remaining(row) <= 0
                     /\ Given(obs.arg[1], row.allowed) - Given(obs.arg[2], row.used) >= 1

\* an edit that sent only capacityMakeupUsed, lowering it on a full slot, promoted a
\* waiter and left capacityMakeupAllowed and capacityCurrent as they were
C36_Witness ==
    \E s \in Slots :
        /\ EditDone(s)
        /\ obs.arg[1] = <<>> /\ obs.arg[2] # <<>> /\ obs.arg[3] = <<>>
        /\ db0.slots[s].current # 0
        /\ Len(obs.promoted) > 0
        /\ slots[s].allowed = db0.slots[s].allowed
        /\ slots[s].current = db0.slots[s].current

\* C37. A confirmed booking is never expired by a racing expiry: when the promotion
\* confirms a request while a sweep or a manual close that selected it as WAITING is in
\* flight, then once all of them have ended no request the promotion counted into
\* capacityMakeupUsed is EXPIRED, and the number of CONFIRMED requests of the slot
\* equals capacityMakeupUsed.
C37_ConfirmedNotExpired ==
    AllIdle =>
        /\ \A i \in 1..Len(obs.promoted) : requests[obs.promoted[i]].status # EXPIRED
        /\ slots["s1"].used = Cardinality(ConfirmedOf("s1"))

\* C38. Emailed decline links stay valid: for every confirmation mail attempted for a
\* request, the decline token in the mail equals the decline token stored on the request
\* for as long as the request is CONFIRMED, under every interleaving of concurrent
\* promotion calls.
C38_MailedTokenValid ==
    \A i \in 1..Len(obs.arg) :
        LET r == obs.arg[i][1]
            tok == obs.arg[i][2]
        IN requests[r].status = CONFIRMED => requests[r].token = tok

\* C39. Every waiter is eventually resolved: while time advances and the sweep keeps
\* firing, every request that is ever WAITING eventually becomes CONFIRMED or EXPIRED,
\* also one that joined the waitlist of a slot whose lesson start is already inside the
\* one-hour window or already in the past.
C39_WaiterResolved ==
    \A r \in 1..MaxReq :
        (r <= Len(requests) /\ requests[r].status = WAITING)
            ~> (r <= Len(requests) /\ requests[r].status \in {CONFIRMED, EXPIRED})

\* C40. Denormalized start time stays in sync: in every reachable state the
\* toSlotStartDateTime of each request equals the lessonStartDateTime of its target
\* slot, also after an admin update-slot has changed the slot's date or start time.
C40_StartInSync ==
    \A r \in ReqIds :
        slots[requests[r].slot].exists
            => requests[r].start = slots[requests[r].slot].start
====
